---- MODULE Spec2Model ----
(***************************************************************************)
(* A model of Ocean's plugin auto-builder (src/main.py): repository URL    *)
(* normalisation, clone-with-fallback acquisition, build-system detection, *)
(* the build, artifact collection and filtering, and the worker that       *)
(* sequences them.                                                         *)
(*                                                                         *)
(* Strings are sequences of tokens.  Every character the code treats       *)
(* specially (":", "/", "?", "#", ";") is a token of its own; a run of     *)
(* other characters (a scheme word, a host name, a path word, a marker     *)
(* such as "sources") is one token.  All tokens are lower-case except      *)
(* where a definition says otherwise.                                      *)
(***************************************************************************)
EXTENDS Integers, Sequences, FiniteSets, TLC

VARIABLES
    n_cmp,      \* normalisation harness: the components the input URL was written from
    n_url,      \* normalisation harness: the input URL
    n_out,      \* normalisation harness: the results of the successive applications
    f_list,     \* filter harness: jar_list
    f_prefer,   \* filter harness: prefer_shadow
    f_ret,      \* filter harness: the returned list
    f_pc,       \* filter harness: "idle", "ready" (arguments chosen) or "returned"
    d_root,     \* find_build_files: the root argument
    d_files,    \* the build files under d_root (full paths)
    d_stack,    \* find_build_files: the directories os.walk has still to yield, next first
    d_res,      \* find_build_files: res
    d_visited,  \* find_build_files: the directories os.walk has yielded, in order
    d_pc,       \* find_build_files: "idle", "walk" or "returned"
    url_entry,          \* GUI: the text of the URL entry
    prefer_shadow_var,  \* GUI: BooleanVar prefer_shadow, "Prefer shadowJar when available"
    keep_temp_var,      \* GUI: BooleanVar "Keep temporary folder for inspection"
    use_latest_tag_var, \* GUI: BooleanVar "Use latest tag"
    btn_state,          \* GUI: state of the Start button
    status_var,         \* GUI: the status line
    progress_var,       \* GUI: the progress bar
    msgbox,             \* GUI: the message boxes shown so far
    w_pc,               \* worker_process: where the worker thread is
    w_url,              \* worker_process: url
    w_repo_url,         \* worker_process: repo_url
    w_tmpdir,           \* worker_process: tmpdir
    w_latest,           \* try_git_clone: use_latest_tag
    w_cloned,           \* worker_process: cloned
    w_prefer,           \* run_build: prefer_shadow
    w_success,          \* worker_process: success
    w_jars,             \* worker_process: jars
    w_usable,           \* worker_process: usable_jars
    w_copied,           \* worker_process: copied
    w_report,           \* worker_process: the stage whose exception was caught (line 459)
                        \* and what the clean-up logged (lines 466-470)
    git_log,            \* the git commands run, in order, each with its outcome
    z_cands,            \* try_zip_download: candidates
    z_i,                \* try_zip_download: index of the candidate the loop is at
    z_log,              \* the archive URLs fetched, in order, each with its outcome
    cmd_log,            \* the commands run_command was given, in order
    fs_tmp,             \* file system: the temporary directories that exist
    fs_jars,            \* file system: the files of the working tree besides build files
    out_exists,         \* file system: the output directory exists
    out_files,          \* file system: the files of the output directory
    e_dest,     \* extraction harness: the files under dest before the archive is unpacked
    e_zip,      \* extraction harness: the members of the archive
    e_out,      \* extraction harness: how the unpacking ended, and the files under dest then
    e_pc,       \* extraction harness: "idle", "ready" or "returned"
    r_btn,      \* runs harness: state of the Start button
    r_pc,       \* runs harness: where each worker thread is
    r_tmpdir,   \* runs harness: tmpdir of each worker thread
    r_keep,     \* runs harness: BooleanVar "Keep temporary folder for inspection"
    r_dirs,     \* runs harness: the temporary directories that exist
    r_log,      \* runs harness: the directories made, used and removed, with the thread
    o_opts,     \* options harness: the BooleanVars of the three check boxes
    o_start,    \* options harness: what the check boxes showed when Start was clicked
    o_pc,       \* options harness: where the worker thread is
    o_env,      \* options harness: what the run has met (clone, tags, wrapper)
    o_did       \* options harness: what the run has done (checkout, shadowJar, rmtree)

normVars == <<n_cmp, n_url, n_out>>
filterVars == <<f_list, f_prefer, f_ret, f_pc>>
detectVars == <<d_root, d_files, d_stack, d_res, d_visited, d_pc>>
guiVars == <<url_entry, prefer_shadow_var, keep_temp_var, use_latest_tag_var, btn_state,
             status_var, progress_var, msgbox>>
workerVars == <<w_pc, w_url, w_repo_url, w_tmpdir, w_latest, w_cloned, w_prefer, w_success,
                w_jars, w_usable, w_copied, w_report>>
acqVars == <<git_log, z_cands, z_i, z_log>>
fsVars == <<fs_tmp, fs_jars, out_exists, out_files>>
pipeVars == <<guiVars, workerVars, acqVars, cmd_log, fsVars>>
extractVars == <<e_dest, e_zip, e_out, e_pc>>
runsVars == <<r_btn, r_pc, r_tmpdir, r_keep, r_dirs, r_log>>
optionVars == <<o_opts, o_start, o_pc, o_env, o_did>>
vars == <<n_cmp, n_url, n_out, f_list, f_prefer, f_ret, f_pc,
          d_root, d_files, d_stack, d_res, d_visited, d_pc, pipeVars, extractVars, runsVars, optionVars>>

-----------------------------------------------------------------------------
(* Bounds *)

MaxSegs == 3        \* path segments of an input URL
MaxApply == 2       \* successive applications of normalize_repo_url
MaxJars == 3        \* length of a candidate list handed to filter_plugin_jars
MaxBuildFiles == 3  \* build files in the tree find_build_files walks
MaxBoxes == 1       \* error boxes on_start shows for an empty URL
MaxMembers == 3     \* members of an archive try_zip_download unpacks
MaxRuns == 3        \* worker threads started in a session

-----------------------------------------------------------------------------
(* String helpers (Python str methods, on token sequences) *)

\* str.find(t, from): the first index >= from holding t, 0 when there is none
\* (indices are 1-based; Python's -1 is 0 here).
Find(s, t, from) ==
    IF \E k \in from..Len(s) : s[k] = t
    THEN CHOOSE k \in from..Len(s) : s[k] = t /\ \A j \in from..(k - 1) : s[j] # t
    ELSE 0

\* str.rfind(t): the last index holding t, 0 when there is none.
RFind(s, t) ==
    IF \E k \in 1..Len(s) : s[k] = t
    THEN CHOOSE k \in 1..Len(s) : s[k] = t /\ \A j \in (k + 1)..Len(s) : s[j] # t
    ELSE 0

\* `t in s`
Has(s, t) == \E k \in 1..Len(s) : s[k] = t

\* str.rstrip(t)
RECURSIVE RStrip(_, _)
RStrip(s, t) ==
    IF Len(s) > 0 /\ s[Len(s)] = t THEN RStrip(SubSeq(s, 1, Len(s) - 1), t) ELSE s

\* str.split(t): never empty; "" splits to [""].
RECURSIVE Split(_, _)
Split(s, t) ==
    LET i == Find(s, t, 1) IN
    IF i = 0 THEN <<s>>
    ELSE <<SubSeq(s, 1, i - 1)>> \o Split(SubSeq(s, i + 1, Len(s)), t)

\* t.join(parts)
RECURSIVE Join(_, _)
Join(parts, t) ==
    IF Len(parts) = 0 THEN <<>>
    ELSE IF Len(parts) = 1 THEN parts[1]
    ELSE parts[1] \o <<t>> \o Join(Tail(parts), t)

\* s[:n]
Take(s, n) == SubSeq(s, 1, IF n < Len(s) THEN n ELSE Len(s))

\* s.startswith(p)
IsPrefix(p, s) == Len(p) <= Len(s) /\ SubSeq(s, 1, Len(p)) = p

-----------------------------------------------------------------------------
(* urllib.parse.urlparse, as normalize_repo_url uses it *)

Punct == {":", "/", "?", "#", ";"}

\* Tokens made of scheme characters only (letters, digits, "+", "-", "."),
\* each starting with a letter.
IsSchemeTok(t) == t \notin Punct

\* urllib.parse.uses_params, restricted to the schemes of the model.
uses_params == {<<>>, <<"https">>}

\* _splitparams(url)[0]
splitparams(url) ==
    LET i == IF Has(url, "/") THEN Find(url, ";", RFind(url, "/")) ELSE Find(url, ";", 1)
    IN IF i = 0 THEN url ELSE SubSeq(url, 1, i - 1)

\* _splitnetloc(url, 2): the end of the network location
NetlocEnd(url) ==
    LET ds == {k \in 3..Len(url) : url[k] \in {"/", "?", "#"}}
    IN IF ds = {} THEN Len(url) + 1 ELSE CHOOSE k \in ds : \A j \in ds : k <= j

\* urlsplit, the scheme: `i = url.find(':')`, and the text before it is the
\* scheme when i > 0 and it holds scheme characters only.
SplitScheme(url) ==
    LET i == Find(url, ":", 1)
    IN IF i > 1 /\ \A k \in 1..(i - 1) : IsSchemeTok(url[k])
       THEN [scheme |-> SubSeq(url, 1, i - 1), url |-> SubSeq(url, i + 1, Len(url))]
       ELSE [scheme |-> <<>>, url |-> url]

\* urlsplit, the network location: `if url[:2] == '//'`
SplitNetloc(url) ==
    IF Len(url) >= 2 /\ url[1] = "/" /\ url[2] = "/"
    THEN [netloc |-> SubSeq(url, 3, NetlocEnd(url) - 1),
          url |-> SubSeq(url, NetlocEnd(url), Len(url))]
    ELSE [netloc |-> <<>>, url |-> url]

\* url.split(t, 1)[0]
Before(url, t) ==
    LET k == Find(url, t, 1) IN IF k > 0 THEN SubSeq(url, 1, k - 1) ELSE url

\* urlparse(url): scheme, netloc and path (params, query and fragment are cut
\* off and never read by the callers).
urlparse(url) ==
    LET s == SplitScheme(url)
        n == SplitNetloc(s.url)
        u == Before(Before(n.url, "#"), "?")
    IN [scheme |-> s.scheme, netloc |-> n.netloc,
        path |-> IF s.scheme \in uses_params /\ Has(u, ";") THEN splitparams(u) ELSE u]

RepoHosts == {"github.com", "gitlab.com", "bitbucket.org"}

\* "github.com" in netloc or "gitlab.com" in netloc or "bitbucket.org" in netloc
IsRepoHost(netloc) == \E h \in RepoHosts : Has(netloc, h)

\* A plausible slip: the path is cut after four parts instead of three.
normalize_repo_url_keep4(repo_url) ==
    LET parsed == urlparse(repo_url)
        parts == Split(RStrip(parsed.path, "/"), "/")
    IN IF IsRepoHost(parsed.netloc) /\ Len(parts) >= 3
       THEN parsed.scheme \o <<":", "/", "/">> \o parsed.netloc \o Join(Take(parts, 4), "/")
       ELSE parsed.scheme \o <<":", "/", "/">> \o parsed.netloc \o parsed.path

normalize_repo_url(repo_url) ==
    LET parsed == urlparse(repo_url)
        parts == Split(RStrip(parsed.path, "/"), "/")
    IN IF IsRepoHost(parsed.netloc) /\ Len(parts) >= 3
       THEN parsed.scheme \o <<":", "/", "/">> \o parsed.netloc \o Join(Take(parts, 3), "/")
       ELSE parsed.scheme \o <<":", "/", "/">> \o parsed.netloc \o parsed.path

-----------------------------------------------------------------------------
(* filter_plugin_jars *)

\* str.lower() on one token: the mixed-case tokens of the model.
LowerTok(t) ==
    CASE t = "Sources" -> "sources"
      [] t = "JavaDoc" -> "javadoc"
      [] t = "Shadow" -> "shadow"
      [] t = "ALL" -> "all"
      [] t = "Source" -> "source"
      [] OTHER -> t

\* str.lower()
Lower(s) == [k \in 1..Len(s) |-> LowerTok(s[k])]

\* The marker words that occur inside a longer (lower-case) token.
Inside(t) ==
    CASE t = "installer" -> {"all"}
      [] t = "gradle-wrapper" -> {"gradle"}
      [] t = "latests" -> {"tests"}
      [] OTHER -> {}

\* `m in s` for a marker word m: m is a token of s or lies inside one.
InStr(m, s) == \E k \in 1..Len(s) : s[k] = m \/ m \in Inside(s[k])

\* os.path.basename(p)
basename(p) == SubSeq(p, RFind(p, "/") + 1, Len(p))

BadMarkers == {"sources", "javadoc", "tests", "original-", "gradle", "build-logic.jar"}
ShadowMarkers == {"shadow", "all"}

\* A plausible slip: the name is not lower-cased before the markers are looked for.
IsBadJar_cased(j) == \E bad \in BadMarkers : InStr(bad, basename(j))

\* any(bad in os.path.basename(j).lower() for bad in (...))
IsBadJar(j) == \E bad \in BadMarkers : InStr(bad, Lower(basename(j)))

\* A plausible slip: only "shadow" is looked for.
IsShadowJar_noall(j) == InStr("shadow", Lower(basename(j)))

\* any(kw in os.path.basename(j).lower() for kw in ("shadow", "all"))
IsShadowJar(j) == \E kw \in ShadowMarkers : InStr(kw, Lower(basename(j)))

\* Insert x into the list s, sorted by key descending, after the elements of
\* an equal key (list.sort is stable, also with reverse=True).
RECURSIVE InsertDesc(_, _, _)
InsertDesc(s, x, key) ==
    IF Len(s) = 0 THEN <<x>>
    ELSE IF key[Head(s)] >= key[x] THEN <<Head(s)>> \o InsertDesc(Tail(s), x, key)
    ELSE <<x>> \o s

RECURSIVE SortDescFrom(_, _, _)
SortDescFrom(done, s, key) ==
    IF Len(s) = 0 THEN done
    ELSE SortDescFrom(InsertDesc(done, Head(s), key), Tail(s), key)

\* A plausible slip: reverse=True is left out (ascending order).
RECURSIVE InsertAsc(_, _, _)
InsertAsc(s, x, key) ==
    IF Len(s) = 0 THEN <<x>>
    ELSE IF key[Head(s)] <= key[x] THEN <<Head(s)>> \o InsertAsc(Tail(s), x, key)
    ELSE <<x>> \o s

RECURSIVE SortAscFrom(_, _, _)
SortAscFrom(done, s, key) ==
    IF Len(s) = 0 THEN done
    ELSE SortAscFrom(InsertAsc(done, Head(s), key), Tail(s), key)

SortByMtime_asc(s, mtime) == SortAscFrom(<<>>, s, mtime)

\* s.sort(key=lambda p: os.path.getmtime(p), reverse=True)
SortByMtime(s, mtime) == SortDescFrom(<<>>, s, mtime)

\* filter_plugin_jars(jar_list, prefer_shadow); mtime is what os.path.getmtime
\* answers for each path.
filter_plugin_jars(jar_list, prefer_shadow, mtime) ==
    IF jar_list = <<>> THEN <<>>
    ELSE LET filtered == SelectSeq(jar_list, LAMBDA j : ~IsBadJar(j))
             shadowed == SelectSeq(filtered, IsShadowJar)
         IN IF filtered = <<>> THEN <<>>
            ELSE IF prefer_shadow /\ shadowed # <<>> THEN shadowed
            ELSE SortByMtime(filtered, mtime)

-----------------------------------------------------------------------------
(* find_build_files and the build-kind dispatch of run_build *)

\* None, and the empty string: both are falsy.
None == <<>>

\* os.path.join(dirpath, f)
pathjoin(dirpath, f) == dirpath \o <<"/", f>>

\* os.path.dirname(p)
dirname(p) ==
    LET head == SubSeq(p, 1, RFind(p, "/"))
    IN IF \A k \in 1..Len(head) : head[k] = "/" THEN head ELSE RStrip(head, "/")

BuildFileNames == {"gradlew", "build.gradle", "build.gradle.kts", "pom.xml"}

\* The directories of the tree, relative to its root: root/, root/sub/,
\* root/sub/mod/ and root/lib/.
RelDirs == {<<>>, <<"sub">>, <<"sub", "mod">>, <<"lib">>}

RECURSIVE DirPath(_, _)
DirPath(root, rel) ==
    IF Len(rel) = 0 THEN root
    ELSE pathjoin(DirPath(root, SubSeq(rel, 1, Len(rel) - 1)), rel[Len(rel)])

\* The directories above the file f and below root.
DirsAbove(root, f) ==
    {SubSeq(f, 1, k - 1) : k \in {j \in (Len(root) + 2)..Len(f) : f[j] = "/"}}

\* The directories of the tree under root: those of RelDirs (which may hold
\* no file of the model) and every directory that holds one of the files.
TreeDirs(root, files) ==
    {DirPath(root, r) : r \in RelDirs}
    \cup UNION {DirsAbove(root, f) : f \in {g \in files : IsPrefix(root \o <<"/">>, g)}}

\* dirnames of the os.walk triple: the subdirectories of dirpath
SubDirs(root, files, dirpath) ==
    {d \in TreeDirs(root, files) : Len(d) = Len(dirpath) + 2 /\ IsPrefix(dirpath \o <<"/">>, d)}

\* filenames of the os.walk triple, as far as find_build_files reads them
filenames(files, dirpath) == {f \in BuildFileNames : pathjoin(dirpath, f) \in files}

\* All orders in which os.walk may list the directories of S (the order of
\* os.scandir is not defined).
RECURSIVE Orders(_)
Orders(S) ==
    IF S = {} THEN {<<>>}
    ELSE UNION {{<<x>> \o o : o \in Orders(S \ {x})} : x \in S}

EmptyRes == [gradlew |-> None, build_gradle |-> None, build_gradle_kts |-> None,
             pom_xml |-> None]

\* The body of `for f in filenames` for one directory.
ScanDir(res, files, dirpath) ==
    LET fn == filenames(files, dirpath) IN
    [gradlew |-> IF "gradlew" \in fn THEN pathjoin(dirpath, "gradlew") ELSE res.gradlew,
     build_gradle |-> IF "build.gradle" \in fn THEN pathjoin(dirpath, "build.gradle")
                      ELSE res.build_gradle,
     build_gradle_kts |-> IF "build.gradle.kts" \in fn
                          THEN pathjoin(dirpath, "build.gradle.kts")
                          ELSE res.build_gradle_kts,
     pom_xml |-> IF "pom.xml" \in fn THEN pathjoin(dirpath, "pom.xml") ELSE res.pom_xml]

\* A plausible slip: the early return is left out and the walk always runs on.
StopsWalk_never(res) == FALSE

\* if any(res.values()): if res["gradlew"]: return res
StopsWalk(res) ==
    /\ \E k \in DOMAIN res : res[k] # None
    /\ res.gradlew # None

\* The branch of run_build's if/elif chain that bf selects.
BuildKind(bf) ==
    IF bf.gradlew # None THEN "GradleWrapper"
    ELSE IF bf.build_gradle # None \/ bf.build_gradle_kts # None THEN "SystemGradle"
    ELSE IF bf.pom_xml # None THEN "Maven"
    ELSE "None"

\* A plausible slip: build.gradle.kts is preferred to build.gradle.
work_dir_kts_first(bf) ==
    IF bf.gradlew # None THEN dirname(bf.gradlew)
    ELSE IF bf.build_gradle # None \/ bf.build_gradle_kts # None
         THEN dirname(IF bf.build_gradle_kts # None THEN bf.build_gradle_kts
                      ELSE bf.build_gradle)
    ELSE IF bf.pom_xml # None THEN dirname(bf.pom_xml)
    ELSE None

\* work_dir in the branch that bf selects (None when no branch sets it).
work_dir(bf) ==
    IF bf.gradlew # None THEN dirname(bf.gradlew)
    ELSE IF bf.build_gradle # None \/ bf.build_gradle_kts # None
         THEN dirname(IF bf.build_gradle # None THEN bf.build_gradle
                      ELSE bf.build_gradle_kts)
    ELSE IF bf.pom_xml # None THEN dirname(bf.pom_xml)
    ELSE None

\* One turn of `for dirpath, dirnames, filenames in os.walk(root)`: os.walk
\* yields the next directory (top-down: a directory, then its subdirectories
\* and all below them, in the order the directory listing gave), its files are
\* recorded, and the function returns when gradlew is recorded or when os.walk
\* has nothing left.
WalkStep ==
    /\ d_pc = "walk"
    /\ d_stack # <<>>
    /\ LET dirpath == Head(d_stack)
           res == ScanDir(d_res, d_files, dirpath)
       IN /\ d_res' = res
          /\ d_visited' = Append(d_visited, dirpath)
          /\ IF StopsWalk(res)
             THEN d_stack' = <<>> /\ d_pc' = "returned"
             ELSE \E o \in Orders(SubDirs(d_root, d_files, dirpath)) :
                     /\ d_stack' = o \o Tail(d_stack)
                     /\ d_pc' = IF d_stack' = <<>> THEN "returned" ELSE "walk"
    /\ UNCHANGED <<d_root, d_files>>

-----------------------------------------------------------------------------
(* try_zip_download: unpacking an archive into dest (lines 221-231).  A     *)
(* tree is the set of the full paths of its files; an archive is the set of *)
(* the paths of its members.                                                *)

\* os.listdir(dir): the names of the entries of dir
listdir(files, dir) ==
    {f[Len(dir) + 2] : f \in {g \in files : IsPrefix(dir \o <<"/">>, g)}}

\* os.path.isdir(path)
isdir(files, path) == \E f \in files : IsPrefix(path \o <<"/">>, f)

\* z.extractall(dest): a member overwrites a file of its path.
extractall(files, dest, zip) == files \cup {dest \o <<"/">> \o m : m \in zip}

\* shutil.move(os.path.join(top, name), os.path.join(dest, name)) for the
\* names of M, top being an entry of dest.
MoveUp(files, dest, top, M) ==
    {IF IsPrefix(top \o <<"/">>, f) /\ f[Len(top) + 2] \in M
     THEN dest \o SubSeq(f, Len(top) + 1, Len(f)) ELSE f : f \in files}

\* A plausible slip: a single top-level directory is left as it is.
Flattens_never(files, dest) == FALSE

\* `if len(entries) == 1:` and `if os.path.isdir(top):` (lines 224-226)
Flattens(files, dest) ==
    /\ Cardinality(listdir(files, dest)) = 1
    /\ \A e \in listdir(files, dest) : isdir(files, pathjoin(dest, e))

\* The ways lines 221-231 may end, each with the files under dest then.  When
\* the single top-level directory has a child of its own name, shutil.move
\* finds its destination taken and raises, after the children that os.listdir
\* gave before that one were moved.
ExtractOutcomes(files, dest, zip) ==
    LET unpacked == extractall(files, dest, zip) IN
    IF Flattens(unpacked, dest)
    THEN LET e == CHOOSE x \in listdir(unpacked, dest) : TRUE
             names == listdir(unpacked, pathjoin(dest, e))
         IN IF e \in names
            THEN {[ok |-> FALSE, files |-> MoveUp(unpacked, dest, pathjoin(dest, e), M)] :
                     M \in SUBSET (names \ {e})}
            ELSE {[ok |-> TRUE, files |-> MoveUp(unpacked, dest, pathjoin(dest, e), names)]}
    ELSE {[ok |-> TRUE, files |-> unpacked]}

-----------------------------------------------------------------------------
(* The pure parts of the pipeline: page resolver, archive candidates,       *)
(* artifact collection                                                      *)

PluginHosts == {"spigotmc.org", "modrinth.com", "curseforge.com"}

\* str.strip(): white space is the token " ".
RECURSIVE LStrip(_, _)
LStrip(s, t) == IF Len(s) > 0 /\ s[1] = t THEN LStrip(Tail(s), t) ELSE s

strip(s) == LStrip(RStrip(s, " "), " ")

\* href.startswith("/"): the link is made absolute with the page's origin.
AbsoluteHref(href, base_url) ==
    IF Len(href) > 0 /\ href[1] = "/"
    THEN LET parsed_base == urlparse(base_url)
         IN parsed_base.scheme \o <<":", "/", "/">> \o parsed_base.netloc \o href
    ELSE href

\* `"github.com" in href or "gitlab.com" in href or "bitbucket.org" in href`,
\* for an <a> element that has an href.
HostedLink(a) == a.href # <<>> /\ IsRepoHost(a.href)

\* An <a> element whose text holds "github" or "source", and that has an href.
TextLink(a) ==
    /\ a.text # <<>>
    /\ InStr("github", Lower(a.text)) \/ InStr("source", Lower(a.text))
    /\ a.href # <<>>

\* find_repo_link_from_html(html, base_url): html is the list of the page's
\* <a> elements, each with its href ("" when it has none) and its text.  The
\* first element each loop returns on is the first of those it accepts.
find_repo_link_from_html(html, base_url) ==
    LET hosted == SelectSeq(html, HostedLink)
        texts == SelectSeq(html, TextLink)
    IN IF hosted # <<>> THEN AbsoluteHref(hosted[1].href, base_url)
       ELSE IF texts # <<>> THEN AbsoluteHref(texts[1].href, base_url)
       ELSE None

\* A plausible slip: the branch names are tried in another order.
ZipCandidates_masterfirst(repo_url) ==
    LET parsed == urlparse(repo_url)
        net == Lower(parsed.netloc)
        path == RStrip(parsed.path, "/")
    IN IF Has(net, "github.com")
       THEN << repo_url \o <<"/archive/refs/heads/", "master", ".zip">>,
               repo_url \o <<"/archive/refs/heads/", "main", ".zip">>,
               repo_url \o <<"/archive/refs/heads/", "develop", ".zip">> >>
       ELSE IF Has(net, "gitlab.com")
       THEN << repo_url \o <<"/-/archive/", "master", "/">> \o basename(path) \o <<"-", "master", ".zip">>,
               repo_url \o <<"/-/archive/", "main", "/">> \o basename(path) \o <<"-", "main", ".zip">> >>
       ELSE IF Has(net, "bitbucket.org")
       THEN << repo_url \o <<"/get/", "master", ".zip">>,
               repo_url \o <<"/get/", "main", ".zip">> >>
       ELSE <<>>

\* candidates of try_zip_download; empty for a host it has no archive URL for.
ZipCandidates(repo_url) ==
    LET parsed == urlparse(repo_url)
        net == Lower(parsed.netloc)
        path == RStrip(parsed.path, "/")
    IN IF Has(net, "github.com")
       THEN << repo_url \o <<"/archive/refs/heads/", "main", ".zip">>,
               repo_url \o <<"/archive/refs/heads/", "master", ".zip">>,
               repo_url \o <<"/archive/refs/heads/", "develop", ".zip">> >>
       ELSE IF Has(net, "gitlab.com")
       THEN << repo_url \o <<"/-/archive/", "main", "/">> \o basename(path) \o <<"-", "main", ".zip">>,
               repo_url \o <<"/-/archive/", "master", "/">> \o basename(path) \o <<"-", "master", ".zip">> >>
       ELSE IF Has(net, "bitbucket.org")
       THEN << repo_url \o <<"/get/", "main", ".zip">>,
               repo_url \o <<"/get/", "master", ".zip">> >>
       ELSE <<>>

\* f.endswith(".jar")
EndsWithJar(p) == Len(p) > 0 /\ p[Len(p)] \in {".jar", "build-logic.jar"}

\* "/.gradle/" in full.replace("\\", "/")
UnderDotGradle(p) ==
    \E k \in 1..(Len(p) - 2) : p[k] = "/" /\ p[k + 1] = ".gradle" /\ p[k + 2] = "/"

\* A plausible slip: the jars under .gradle are collected too.
Collectable_cache(files) == {p \in files : EndsWithJar(p)}

\* The files the jar walk of run_build appends to jars.
Collectable(files) == {p \in files : EndsWithJar(p) /\ ~UnderDotGradle(p)}

-----------------------------------------------------------------------------
(* The state of each part of the model while another part is being run *)

NoCmp == [scheme |-> <<>>, auth |-> FALSE, host |-> "", segs |-> <<>>,
          query |-> FALSE, frag |-> FALSE]

NormIdle == n_cmp = NoCmp /\ n_url = <<>> /\ n_out = <<>>

NoJars == <<>>

FilterIdle == f_list = NoJars /\ f_prefer = FALSE /\ f_ret = NoJars /\ f_pc = "idle"

DetectIdle ==
    /\ d_root = None /\ d_files = {} /\ d_stack = <<>> /\ d_res = EmptyRes
    /\ d_visited = <<>> /\ d_pc = "idle"

\* Nothing caught, nothing cleaned up.
NoReport == [exception |-> "", cleanup |-> ""]

ExtractIdle == e_dest = {} /\ e_zip = {} /\ e_out = <<>> /\ e_pc = "idle"

\* The check boxes as start_gui makes them (lines 523, 530, 537).
DefaultOptions == [latest |-> FALSE, shadow |-> TRUE, keep |-> FALSE]

NoFlags == [cloned |-> FALSE, tags |-> FALSE, built |-> FALSE, wrapper |-> FALSE]

NothingDone == [checkout |-> FALSE, shadow |-> FALSE, deleted |-> FALSE]

OptionsIdle ==
    /\ o_opts = DefaultOptions /\ o_start = DefaultOptions /\ o_pc = "idle"
    /\ o_env = NoFlags /\ o_did = NothingDone

RunsIdle ==
    /\ r_btn = "normal" /\ r_pc = <<>> /\ r_tmpdir = <<>> /\ r_keep = FALSE
    /\ r_dirs = {} /\ r_log = <<>>

PipeIdle ==
    /\ url_entry = <<>> /\ prefer_shadow_var = TRUE /\ keep_temp_var = FALSE
    /\ use_latest_tag_var = FALSE /\ btn_state = "normal" /\ status_var = "Ready"
    /\ progress_var = 0 /\ msgbox = <<>>
    /\ w_pc = "idle" /\ w_url = <<>> /\ w_repo_url = None /\ w_tmpdir = None
    /\ w_latest = FALSE /\ w_cloned = FALSE /\ w_prefer = FALSE /\ w_success = FALSE
    /\ w_jars = <<>> /\ w_usable = <<>> /\ w_copied = <<>> /\ w_report = NoReport
    /\ git_log = <<>> /\ z_cands = <<>> /\ z_i = 0 /\ z_log = <<>> /\ cmd_log = <<>>
    /\ fs_tmp = {} /\ fs_jars = {} /\ out_exists = FALSE /\ out_files = {}

-----------------------------------------------------------------------------
(* The normalisation harness: an input URL is written from components, and  *)
(* normalize_repo_url is applied to it and then to its own result.          *)

Schemes == {<<>>, <<"https">>, <<"git">>}
UrlHosts == {"github.com", "bitbucket.org", "example.org"}
SegChoices == {<<>>, <<"o">>, <<"r">>, <<"r", ";", "x">>}

RECURSIVE SeqsUpTo(_, _)
SeqsUpTo(S, n) ==
    IF n = 0 THEN {<<>>}
    ELSE LET shorter == SeqsUpTo(S, n - 1)
         IN shorter \cup {Append(s, x) : s \in {t \in shorter : Len(t) = n - 1}, x \in S}

RECURSIVE RenderPath(_)
RenderPath(segs) ==
    IF Len(segs) = 0 THEN <<>> ELSE <<"/">> \o Head(segs) \o RenderPath(Tail(segs))

RenderUrl(c) ==
    (IF c.scheme = <<>> THEN <<>> ELSE c.scheme \o <<":">>)
    \o (IF c.auth THEN <<"/", "/">> ELSE <<>>)
    \o <<c.host>>
    \o RenderPath(c.segs)
    \o (IF c.query THEN <<"?", "q">> ELSE <<>>)
    \o (IF c.frag THEN <<"#", "f">> ELSE <<>>)

InitNorm ==
    /\ FilterIdle /\ DetectIdle /\ PipeIdle /\ ExtractIdle /\ RunsIdle /\ OptionsIdle
    /\ n_cmp \in [scheme : Schemes, auth : BOOLEAN, host : UrlHosts,
                  segs : SeqsUpTo(SegChoices, MaxSegs), query : BOOLEAN, frag : BOOLEAN]
    /\ n_url = RenderUrl(n_cmp)
    /\ n_out = <<>>

Normalize ==
    /\ n_url # <<>>
    /\ Len(n_out) < MaxApply
    /\ n_out' = Append(n_out, normalize_repo_url(IF n_out = <<>> THEN n_url
                                                 ELSE n_out[Len(n_out)]))
    /\ UNCHANGED <<n_cmp, n_url>>
    /\ UNCHANGED <<filterVars, detectVars, pipeVars, extractVars, runsVars, optionVars>>

NextNorm == Normalize

SpecNorm == InitNorm /\ [][NextNorm]_vars

-----------------------------------------------------------------------------
(* The filter harness: filter_plugin_jars is called on a candidate list.    *)

\* The jar files of the harness, each with its modification time.
JarFiles == {
    <<"build", "/", "plugin", ".jar">>,
    <<"build", "/", "plugin", "-", "all", ".jar">>,
    <<"build", "/", "plugin", "-", "Shadow", ".jar">>,
    <<"build", "/", "plugin", "-", "sources", ".jar">>,
    <<"build", "/", "plugin", "-", "all", "-", "JavaDoc", ".jar">>,
    <<"build", "/", "original-", "plugin", ".jar">>,
    <<"sources", "/", "core", ".jar">>,
    <<"build", "/", "installer", ".jar">>,
    <<"build", "/", "gradle-wrapper", ".jar">>,
    <<"build-logic.jar">> }

HarnessMtime(j) ==
    CASE j = <<"build", "/", "plugin", ".jar">> -> 2
      [] j = <<"build", "/", "plugin", "-", "all", ".jar">> -> 3
      [] j = <<"build", "/", "plugin", "-", "Shadow", ".jar">> -> 1
      [] j = <<"sources", "/", "core", ".jar">> -> 3
      [] j = <<"build", "/", "installer", ".jar">> -> 2
      [] OTHER -> 1

InitFilter ==
    /\ NormIdle /\ DetectIdle /\ PipeIdle /\ ExtractIdle /\ RunsIdle /\ OptionsIdle
    /\ f_list \in SeqsUpTo(JarFiles, MaxJars)
    /\ f_prefer \in BOOLEAN
    /\ f_ret = NoJars
    /\ f_pc = "ready"

FilterCall ==
    /\ f_pc = "ready"
    /\ f_ret' = filter_plugin_jars(f_list, f_prefer, [j \in JarFiles |-> HarnessMtime(j)])
    /\ f_pc' = "returned"
    /\ UNCHANGED <<f_list, f_prefer>>
    /\ UNCHANGED <<normVars, detectVars, pipeVars, extractVars, runsVars, optionVars>>

NextFilter == FilterCall

SpecFilter == InitFilter /\ [][NextFilter]_vars

-----------------------------------------------------------------------------
(* The detection harness: find_build_files walks a tree of build files.     *)

HarnessRoot == <<"root">>

\* Every place a build file can be at under root.
FileSlots(root) == {pathjoin(DirPath(root, r), f) : r \in RelDirs, f \in BuildFileNames}

InitDetect ==
    /\ NormIdle /\ FilterIdle /\ PipeIdle /\ ExtractIdle /\ RunsIdle /\ OptionsIdle
    /\ d_root = HarnessRoot
    /\ d_files \in {F \in SUBSET FileSlots(HarnessRoot) : Cardinality(F) <= MaxBuildFiles}
    /\ d_stack = <<d_root>>
    /\ d_res = EmptyRes
    /\ d_visited = <<>>
    /\ d_pc = "walk"

DetectWalk ==
    WalkStep /\ UNCHANGED <<normVars, filterVars, pipeVars, extractVars, runsVars, optionVars>>

NextDetect == DetectWalk

SpecDetect == InitDetect /\ [][NextDetect]_vars

-----------------------------------------------------------------------------
(* The extraction harness: an archive is unpacked into a directory.         *)

HarnessDest == <<"dest">>

\* The files dest may hold before the archive is unpacked.
DestPool == {<<"dest", "/", "README">>, <<"dest", "/", "r-main", "/", "old">>}

\* The members an archive may have: under the directory r-main, under the
\* directory v, and at the top level.
MemberPool == {
    <<"r-main", "/", "README">>,
    <<"r-main", "/", "gradlew">>,
    <<"r-main", "/", "sub", "/", "pom.xml">>,
    <<"r-main", "/", "r-main", "/", "README">>,
    <<"v", "/", "pom.xml">>,
    <<"README">>,
    <<"pom.xml">> }

InitExtract ==
    /\ NormIdle /\ FilterIdle /\ DetectIdle /\ PipeIdle /\ RunsIdle /\ OptionsIdle
    /\ e_dest \in SUBSET DestPool
    /\ e_zip \in {Z \in SUBSET MemberPool : Z # {} /\ Cardinality(Z) <= MaxMembers}
    /\ e_out = <<>>
    /\ e_pc = "ready"

ExtractCall ==
    /\ e_pc = "ready"
    /\ \E o \in ExtractOutcomes(e_dest, HarnessDest, e_zip) : e_out' = <<o>>
    /\ e_pc' = "returned"
    /\ UNCHANGED <<e_dest, e_zip>>
    /\ UNCHANGED <<normVars, filterVars, detectVars, pipeVars, runsVars, optionVars>>

NextExtract == ExtractCall

SpecExtract == InitExtract /\ [][NextExtract]_vars

-----------------------------------------------------------------------------
(* The pipeline: on_start starts the worker thread, which runs               *)
(* worker_process.  What lies outside the program (the pages, git, the       *)
(* archive servers, the build tools) answers nondeterministically.           *)

\* The texts the user may have typed into the URL entry.
InputUrls == {
    <<>>,
    <<"https", ":", "/", "/", "github.com", "/", "o", "/", "r", "/", "tree", "/", "main">>,
    <<"gitlab.com", "/", "o", "/", "r", " ">>,
    <<"https", ":", "/", "/", "bitbucket.org", "/", "o", "/", "r", "/">>,
    <<"https", ":", "/", "/", "spigotmc.org", "/", "resources", "/", "x">>,
    <<"https", ":", "/", "/", "example.org", "/", "p">> }

\* What fetch_page may give: an exception, or the <a> elements of a page.
PageAnswers == {
    [ok |-> FALSE, html |-> <<>>],
    [ok |-> TRUE, html |-> <<>>],
    [ok |-> TRUE, html |-> << [href |-> <<"https", ":", "/", "/", "github.com", "/", "o", "/",
                                          "r", "/", "issues">>,
                               text |-> <<"Issues">>] >>],
    [ok |-> TRUE, html |-> << [href |-> <<"github.com", "/", "o", "/", "r">>,
                               text |-> <<>>] >>],
    [ok |-> TRUE, html |-> << [href |-> <<"/", "source">>,
                               text |-> <<"Source", " ", "code">>] >>] }

\* The path tempfile.mkdtemp(prefix="plugin_build_") returns.
TmpDir == <<"/", "tmp", "/", "plugin_build_1">>

\* out_dir, as read from the output entry.
OutDir == <<"~", "/", "plugin_builds">>

\* The build files an acquired repository may hold.
TreeChoices == {
    {},
    {pathjoin(TmpDir, "gradlew"), pathjoin(TmpDir, "build.gradle"),
     pathjoin(DirPath(TmpDir, <<"sub">>), "pom.xml")},
    {pathjoin(DirPath(TmpDir, <<"sub">>), "pom.xml"),
     pathjoin(DirPath(TmpDir, <<"lib">>), "pom.xml")},
    {pathjoin(DirPath(TmpDir, <<"lib">>), "build.gradle.kts")} }

\* What `git clone` leaves in dest for a repository with the build files t
\* (a repository has a README besides).
RepoTree(t) == t \cup {pathjoin(TmpDir, "README")}

\* The branch archive of that repository: a host puts the tree under one
\* directory named after the repository and the branch.
ArchiveOf(t) == {<<"r-main">> \o SubSeq(f, Len(TmpDir) + 1, Len(f)) : f \in RepoTree(t)}

WorkFile(rel) == TmpDir \o <<"/">> \o rel

JarPlugin == WorkFile(<<"build", "/", "plugin", ".jar">>)
JarAll == WorkFile(<<"build", "/", "plugin", "-", "all", ".jar">>)
JarSources == WorkFile(<<"build", "/", "plugin", "-", "sources", ".jar">>)
JarWrapper == WorkFile(<<"gradle", "/", "gradle-wrapper", ".jar">>)
JarCached == WorkFile(<<".gradle", "/", "dep", ".jar">>)
JarPluginLib == WorkFile(<<"libs", "/", "plugin", ".jar">>)
ClassFile == WorkFile(<<"build", "/", "plugin", ".class">>)

WorkFiles == {JarPlugin, JarAll, JarSources, JarWrapper, JarCached, JarPluginLib, ClassFile}

\* What a successful build may leave in the tree.
BuildOutputs == {
    {ClassFile},
    {JarCached, ClassFile},
    {JarPlugin, JarPluginLib, JarCached},
    {JarSources, JarWrapper},
    {JarPlugin, JarAll, JarSources, JarWrapper} }

\* dest = os.path.join(out_dir, os.path.basename(jar))
DestOf(jar) == OutDir \o <<"/">> \o basename(jar)

\* A file an earlier run has left in the output directory: each file of the
\* directory is a record of its path and of the file its content came from.
OldOutput == [dest |-> DestOf(JarPlugin), src |-> <<"earlier run">>]

\* What os.path.getmtime answers.
WorkMtime(p) ==
    CASE p = JarAll -> 3
      [] p = JarPlugin -> 2
      [] p = JarWrapper -> 2
      [] OTHER -> 1

Init ==
    /\ NormIdle /\ FilterIdle /\ DetectIdle /\ ExtractIdle /\ RunsIdle /\ OptionsIdle
    /\ url_entry \in InputUrls
    /\ prefer_shadow_var \in BOOLEAN
    /\ keep_temp_var \in BOOLEAN
    /\ use_latest_tag_var \in BOOLEAN
    /\ btn_state = "normal" /\ status_var = "Ready" /\ progress_var = 0 /\ msgbox = <<>>
    /\ w_pc = "idle" /\ w_url = <<>> /\ w_repo_url = None /\ w_tmpdir = None
    /\ w_latest = FALSE /\ w_cloned = FALSE /\ w_prefer = FALSE /\ w_success = FALSE
    /\ w_jars = <<>> /\ w_usable = <<>> /\ w_copied = <<>> /\ w_report = NoReport
    /\ git_log = <<>> /\ z_cands = <<>> /\ z_i = 0 /\ z_log = <<>> /\ cmd_log = <<>>
    /\ fs_tmp = {} /\ fs_jars = {} /\ out_exists \in BOOLEAN
    /\ out_files = IF out_exists THEN {OldOutput} ELSE {}

harnessVars == <<normVars, filterVars, extractVars, runsVars, optionVars>>
otherVars == <<harnessVars, w_report>>
optVars == <<url_entry, prefer_shadow_var, keep_temp_var, use_latest_tag_var>>
walkVars == <<d_root, d_stack, d_res, d_visited, d_pc>>

\* on_start: an empty URL gets an error box; otherwise the worker thread is
\* started with the stripped URL.
OnStart ==
    /\ w_pc = "idle" /\ btn_state = "normal"
    /\ IF strip(url_entry) = <<>>
       THEN /\ Len(msgbox) < MaxBoxes
            /\ msgbox' = Append(msgbox, "Please enter a URL.")
            /\ UNCHANGED <<w_pc, w_url>>
       ELSE /\ w_pc' = "begin"
            /\ w_url' = strip(url_entry)
            /\ UNCHANGED msgbox
    /\ UNCHANGED <<url_entry, prefer_shadow_var, keep_temp_var, use_latest_tag_var, btn_state,
                   status_var, progress_var>>
    /\ UNCHANGED <<w_repo_url, w_tmpdir, w_latest, w_cloned, w_prefer, w_success, w_jars,
                   w_usable, w_copied>>
    /\ UNCHANGED <<acqVars, cmd_log, fsVars, detectVars, otherVars>>

\* worker_process, lines 358-367
WorkerBegin ==
    /\ w_pc = "begin"
    /\ btn_state' = "disabled"
    /\ progress_var' = 0
    /\ status_var' = "Starting..."
    /\ w_url' = IF urlparse(w_url).scheme = <<>>
                THEN <<"https", ":", "/", "/">> \o w_url ELSE w_url
    /\ w_pc' = "resolve"
    /\ UNCHANGED <<url_entry, prefer_shadow_var, keep_temp_var, use_latest_tag_var, msgbox>>
    /\ UNCHANGED <<w_repo_url, w_tmpdir, w_latest, w_cloned, w_prefer, w_success, w_jars,
                   w_usable, w_copied>>
    /\ UNCHANGED <<acqVars, cmd_log, fsVars, detectVars, otherVars>>

\* The repository link of a fetched page, normalised; None when the fetch
\* raised or the page has no link.
RepoOfPage(answer, url) ==
    IF ~answer.ok THEN None
    ELSE LET repo == find_repo_link_from_html(answer.html, url)
         IN IF repo # <<>> THEN normalize_repo_url(repo) ELSE None

\* worker_process, lines 369-395
Resolve ==
    /\ w_pc = "resolve"
    /\ LET netloc == urlparse(w_url).netloc IN
       IF \E h \in PluginHosts : Has(netloc, h)
       THEN /\ status_var' = "Parsing plugin page for repository link..."
            /\ \E answer \in PageAnswers : w_repo_url' = RepoOfPage(answer, w_url)
       ELSE IF IsRepoHost(netloc)
       THEN /\ w_repo_url' = normalize_repo_url(w_url)
            /\ UNCHANGED status_var
       ELSE /\ \E answer \in PageAnswers : w_repo_url' = RepoOfPage(answer, w_url)
            /\ UNCHANGED status_var
    /\ w_pc' = "check_repo"
    /\ UNCHANGED <<url_entry, prefer_shadow_var, keep_temp_var, use_latest_tag_var, btn_state,
                   progress_var, msgbox>>
    /\ UNCHANGED <<w_url, w_tmpdir, w_latest, w_cloned, w_prefer, w_success, w_jars,
                   w_usable, w_copied>>
    /\ UNCHANGED <<acqVars, cmd_log, fsVars, detectVars, otherVars>>

\* A plausible slip: the run goes on without a repository URL.
NoRepo_never(repo_url) == FALSE

\* `if not repo_url:` (line 397)
NoRepo(repo_url) == repo_url = None

\* worker_process, lines 397-400
CheckRepo ==
    /\ w_pc = "check_repo"
    /\ IF NoRepo(w_repo_url)
       THEN status_var' = "Could not determine repository URL." /\ w_pc' = "finally"
       ELSE UNCHANGED status_var /\ w_pc' = "mkdtemp"
    /\ UNCHANGED <<url_entry, prefer_shadow_var, keep_temp_var, use_latest_tag_var, btn_state,
                   progress_var, msgbox>>
    /\ UNCHANGED <<w_url, w_repo_url, w_tmpdir, w_latest, w_cloned, w_prefer, w_success,
                   w_jars, w_usable, w_copied>>
    /\ UNCHANGED <<acqVars, cmd_log, fsVars, detectVars, otherVars>>

\* A plausible slip: an exception is reported with the status of a failed
\* build.
ExceptionStatus_build == "Build failed or produced no jars."

\* status_var.set("Exception during process.") (line 458)
ExceptionStatus == "Exception during process."

\* `except Exception as e:` (lines 457-459): an exception raised in a stage of
\* the try block sets the status and is logged; the finally block is next.
Caught(stage) ==
    /\ status_var' = ExceptionStatus
    /\ w_report' = [w_report EXCEPT !.exception = stage]
    /\ w_pc' = "finally"

\* worker_process, lines 402-405; mkdtemp may raise (lines 457-459).
MkTemp ==
    /\ w_pc = "mkdtemp"
    /\ \E made \in BOOLEAN :
          IF made
          THEN /\ w_tmpdir' = TmpDir
               /\ fs_tmp' = fs_tmp \cup {TmpDir}
               /\ status_var' = "Downloading repository..."
               /\ progress_var' = 10
               /\ w_pc' = "git_version"
               /\ UNCHANGED w_report
          ELSE /\ Caught("mkdtemp")
               /\ UNCHANGED <<w_tmpdir, fs_tmp, progress_var>>
    /\ UNCHANGED <<url_entry, prefer_shadow_var, keep_temp_var, use_latest_tag_var, btn_state,
                   msgbox>>
    /\ UNCHANGED <<w_url, w_repo_url, w_latest, w_cloned, w_prefer, w_success, w_jars,
                   w_usable, w_copied>>
    /\ UNCHANGED <<acqVars, cmd_log, fs_jars, out_exists, out_files, detectVars, harnessVars>>

\* try_git_clone, lines 152-159: use_latest_tag is the value of the check box
\* when the call is made (line 407); `git --version` tells whether git exists.
GitVersion ==
    /\ w_pc = "git_version"
    /\ w_latest' = use_latest_tag_var
    /\ \E ok \in BOOLEAN :
          /\ git_log' = Append(git_log, [cmd |-> "--version", ok |-> ok])
          /\ IF ok THEN w_pc' = "git_clone" /\ UNCHANGED w_cloned
             ELSE w_pc' = "after_clone" /\ w_cloned' = FALSE
    /\ UNCHANGED <<optVars, btn_state, status_var, progress_var, msgbox>>
    /\ UNCHANGED <<w_url, w_repo_url, w_tmpdir, w_prefer, w_success, w_jars, w_usable,
                   w_copied>>
    /\ UNCHANGED <<z_cands, z_i, z_log, cmd_log, fsVars, detectVars, otherVars>>

\* try_git_clone, lines 162-165 (and 178, 180-182): `git clone repo_url dest`.
\* A clone that succeeds fills the working tree.
GitClone ==
    /\ w_pc = "git_clone"
    /\ \E ok \in BOOLEAN :
          /\ git_log' = Append(git_log, [cmd |-> "clone", ok |-> ok])
          /\ IF ok
             THEN /\ \E t \in TreeChoices : d_files' = RepoTree(t)
                  /\ IF w_latest THEN w_pc' = "git_tag" /\ UNCHANGED w_cloned
                     ELSE w_pc' = "after_clone" /\ w_cloned' = TRUE
             ELSE /\ w_pc' = "after_clone" /\ w_cloned' = FALSE
                  /\ UNCHANGED d_files
    /\ UNCHANGED <<optVars, btn_state, status_var, progress_var, msgbox>>
    /\ UNCHANGED <<w_url, w_repo_url, w_tmpdir, w_latest, w_prefer, w_success, w_jars,
                   w_usable, w_copied>>
    /\ UNCHANGED <<z_cands, z_i, z_log, cmd_log, fsVars, walkVars, otherVars>>

\* try_git_clone, lines 167-174: `git tag --sort=-creatordate` fails, lists no
\* tag, or lists some.
GitTag ==
    /\ w_pc = "git_tag"
    /\ \E tags \in {"error", "none", "some"} :
          /\ git_log' = Append(git_log, [cmd |-> "tag", ok |-> tags # "error"])
          /\ CASE tags = "error" -> w_pc' = "after_clone" /\ w_cloned' = FALSE
               [] tags = "none" -> w_pc' = "after_clone" /\ w_cloned' = TRUE
               [] tags = "some" -> w_pc' = "git_checkout" /\ UNCHANGED w_cloned
    /\ UNCHANGED <<optVars, btn_state, status_var, progress_var, msgbox>>
    /\ UNCHANGED <<w_url, w_repo_url, w_tmpdir, w_latest, w_prefer, w_success, w_jars,
                   w_usable, w_copied>>
    /\ UNCHANGED <<z_cands, z_i, z_log, cmd_log, fsVars, detectVars, otherVars>>

\* try_git_clone, lines 175-182: `git checkout latest_tag`.  (The tree of the
\* tag is one of TreeChoices like the tree of the default branch, so d_files
\* stands for either.)
GitCheckout ==
    /\ w_pc = "git_checkout"
    /\ \E ok \in BOOLEAN :
          /\ git_log' = Append(git_log, [cmd |-> "checkout", ok |-> ok])
          /\ w_cloned' = ok
    /\ w_pc' = "after_clone"
    /\ UNCHANGED <<optVars, btn_state, status_var, progress_var, msgbox>>
    /\ UNCHANGED <<w_url, w_repo_url, w_tmpdir, w_latest, w_prefer, w_success, w_jars,
                   w_usable, w_copied>>
    /\ UNCHANGED <<z_cands, z_i, z_log, cmd_log, fsVars, detectVars, otherVars>>

\* A plausible slip: the archive download is tried whatever the clone gave.
NeedsZip_always(cloned) == TRUE

\* `if not cloned:` (line 411)
NeedsZip(cloned) == ~cloned

\* worker_process, lines 409-418, and try_zip_download up to its loop (lines
\* 186-212): with no candidate list for the host the download has failed.
AfterClone ==
    /\ w_pc = "after_clone"
    /\ progress_var' = 20
    /\ IF NeedsZip(w_cloned)
       THEN /\ z_cands' = ZipCandidates(w_repo_url)
            /\ IF z_cands' = <<>>
               THEN status_var' = "Download failed." /\ w_pc' = "finally" /\ UNCHANGED z_i
               ELSE status_var' = "Trying zip download..." /\ w_pc' = "zip" /\ z_i' = 1
       ELSE /\ w_pc' = "build_start"
            /\ UNCHANGED <<z_cands, z_i, status_var>>
    /\ UNCHANGED <<optVars, btn_state, msgbox>>
    /\ UNCHANGED <<w_url, w_repo_url, w_tmpdir, w_latest, w_cloned, w_prefer, w_success,
                   w_jars, w_usable, w_copied>>
    /\ UNCHANGED <<git_log, z_log, cmd_log, fsVars, detectVars, otherVars>>

\* How one candidate may end: session.get raises, the status is not 200, the
\* content is not a zip archive (line 221 raises), or all goes well.
ZipOutcomes == {"fetch_error", "non200", "extract_error", "ok"}

\* One turn of `for c in candidates` (lines 214-235): the candidate is
\* fetched; when it unpacks the function returns True, otherwise the loop goes
\* on, and past the last candidate the function returns False (lines 415-418).
\* The archive is unpacked into the working tree, whatever that holds (lines
\* 221-231).  It is an archive of the repository `git clone` was given: where
\* a clone is in the working tree, the archive holds the build files it has.
ZipTry ==
    /\ w_pc = "zip"
    /\ \E outcome \in ZipOutcomes :
          /\ z_log' = Append(z_log, [url |-> z_cands[z_i], outcome |-> outcome])
          /\ IF outcome = "ok"
             THEN /\ \E t \in {c \in TreeChoices : d_files \in {{}, RepoTree(c)}} :
                        \E o \in ExtractOutcomes(d_files, w_tmpdir, ArchiveOf(t)) :
                           o.ok /\ d_files' = o.files
                  /\ w_pc' = "build_start"
                  /\ UNCHANGED <<z_i, status_var>>
             ELSE /\ UNCHANGED d_files
                  /\ IF z_i < Len(z_cands)
                     THEN z_i' = z_i + 1 /\ UNCHANGED <<w_pc, status_var>>
                     ELSE /\ status_var' = "Download failed."
                          /\ w_pc' = "finally"
                          /\ UNCHANGED z_i
    /\ UNCHANGED <<optVars, btn_state, progress_var, msgbox>>
    /\ UNCHANGED <<w_url, w_repo_url, w_tmpdir, w_latest, w_cloned, w_prefer, w_success,
                   w_jars, w_usable, w_copied>>
    /\ UNCHANGED <<git_log, z_cands, cmd_log, fsVars, walkVars, otherVars>>

\* worker_process, lines 419-421, and run_build, lines 301-306: the shadow
\* preference is the value of the check box when run_build is called, and
\* find_build_files starts its walk at the working tree.  (ensure_executable
\* changes a mode bit only.)
BuildStart ==
    /\ w_pc = "build_start"
    /\ progress_var' = 40
    /\ status_var' = "Building project..."
    /\ w_prefer' = prefer_shadow_var
    /\ d_root' = w_tmpdir
    /\ d_stack' = <<w_tmpdir>>
    /\ d_res' = EmptyRes
    /\ d_visited' = <<>>
    /\ d_pc' = "walk"
    /\ w_pc' = "build_walk"
    /\ UNCHANGED <<optVars, btn_state, msgbox>>
    /\ UNCHANGED <<w_url, w_repo_url, w_tmpdir, w_latest, w_cloned, w_success, w_jars,
                   w_usable, w_copied>>
    /\ UNCHANGED <<acqVars, cmd_log, fsVars, d_files, otherVars>>

\* find_build_files inside run_build (line 301)
BuildWalk ==
    /\ w_pc = "build_walk"
    /\ WalkStep
    /\ w_pc' = IF d_pc' = "returned" THEN "build_cmd" ELSE "build_walk"
    /\ UNCHANGED <<guiVars, acqVars, cmd_log, fsVars, otherVars>>
    /\ UNCHANGED <<w_url, w_repo_url, w_tmpdir, w_latest, w_cloned, w_prefer, w_success,
                   w_jars, w_usable, w_copied>>

\* How run_command may end: exit status 0, another exit status, or the
\* process could not be started; it returns True for the first only.
CmdOutcomes == {"0", "1", "not started"}

ShadowCmd == <<"./gradlew", "shadowJar", "-x", "test">>

\* A plausible slip: the Maven build does not skip the tests.
MandatoryCmd_mvntests(kind) ==
    CASE kind = "GradleWrapper" -> <<"./gradlew", "build", "-x", "test">>
      [] kind = "SystemGradle" -> <<"gradle", "build", "-x", "test">>
      [] kind = "Maven" -> <<"mvn", "package">>

\* The mandatory command of each build kind (lines 322, 331, 337), as on a
\* platform other than win32.
MandatoryCmd(kind) ==
    CASE kind = "GradleWrapper" -> <<"./gradlew", "build", "-x", "test">>
      [] kind = "SystemGradle" -> <<"gradle", "build", "-x", "test">>
      [] kind = "Maven" -> <<"mvn", "-DskipTests", "package">>

\* A plausible slip: the shadowJar run does not look at the preference.
TriesShadow_always(kind, prefer_shadow) == kind = "GradleWrapper"

\* `if bf["gradlew"]:` and `if prefer_shadow:` (lines 308, 311)
TriesShadow(kind, prefer_shadow) == kind = "GradleWrapper" /\ prefer_shadow

\* run_build, lines 311-320: the optional shadowJar run of a wrapper build.
RunShadowJar ==
    /\ w_pc = "build_cmd"
    /\ TriesShadow(BuildKind(d_res), w_prefer)
    /\ cmd_log = <<>>
    /\ \E out \in CmdOutcomes :
          /\ cmd_log' = Append(cmd_log, [cmd |-> ShadowCmd, cwd |-> work_dir(d_res),
                                         out |-> out])
          /\ \E made \in (IF out = "0" THEN {{}, {JarAll}} ELSE {{}}) :
                fs_jars' = fs_jars \cup made
    /\ UNCHANGED <<guiVars, workerVars, acqVars, fs_tmp, out_exists, out_files, detectVars,
                   otherVars>>

\* run_build, lines 322-340: the mandatory build command of the detected kind.
RunMandatory ==
    /\ w_pc = "build_cmd"
    /\ BuildKind(d_res) # "None"
    /\ Len(cmd_log) = IF TriesShadow(BuildKind(d_res), w_prefer) THEN 1 ELSE 0
    /\ \E out \in CmdOutcomes :
          /\ cmd_log' = Append(cmd_log, [cmd |-> MandatoryCmd(BuildKind(d_res)),
                                         cwd |-> work_dir(d_res), out |-> out])
          /\ IF out = "0"
             THEN /\ \E made \in BuildOutputs : fs_jars' = fs_jars \cup made
                  /\ w_pc' = "collect"
                  /\ UNCHANGED <<w_success, w_jars>>
             ELSE /\ w_success' = FALSE /\ w_jars' = <<>>
                  /\ w_pc' = "after_build"
                  /\ UNCHANGED fs_jars
    /\ UNCHANGED <<guiVars, acqVars, fs_tmp, out_exists, out_files, detectVars, otherVars>>
    /\ UNCHANGED <<w_url, w_repo_url, w_tmpdir, w_latest, w_cloned, w_prefer, w_usable,
                   w_copied>>

\* run_build, lines 341-343
NoBuildFile ==
    /\ w_pc = "build_cmd"
    /\ BuildKind(d_res) = "None"
    /\ w_success' = FALSE /\ w_jars' = <<>>
    /\ w_pc' = "after_build"
    /\ UNCHANGED <<guiVars, acqVars, cmd_log, fsVars, detectVars, otherVars>>
    /\ UNCHANGED <<w_url, w_repo_url, w_tmpdir, w_latest, w_cloned, w_prefer, w_usable,
                   w_copied>>

\* run_build, lines 345-354: the jar walk (in whatever order os.walk lists the
\* files), sorted by modification time, newest first.
Collect ==
    /\ w_pc = "collect"
    /\ \E o \in Orders(Collectable(fs_jars)) :
          w_jars' = SortByMtime(o, [j \in WorkFiles |-> WorkMtime(j)])
    /\ w_success' = (Len(w_jars') > 0)
    /\ w_pc' = "after_build"
    /\ UNCHANGED <<guiVars, acqVars, cmd_log, fsVars, detectVars, otherVars>>
    /\ UNCHANGED <<w_url, w_repo_url, w_tmpdir, w_latest, w_cloned, w_prefer, w_usable,
                   w_copied>>

\* run_build, line 353: os.path.getmtime raises for a jar the walk has listed
\* (a link whose target is missing, say); run_build does not catch it.
CollectRaises ==
    /\ w_pc = "collect"
    /\ Collectable(fs_jars) # {}
    /\ Caught("collect")
    /\ UNCHANGED <<optVars, btn_state, progress_var, msgbox>>
    /\ UNCHANGED <<w_url, w_repo_url, w_tmpdir, w_latest, w_cloned, w_prefer, w_success,
                   w_jars, w_usable, w_copied>>
    /\ UNCHANGED <<acqVars, cmd_log, fsVars, detectVars, harnessVars>>

\* worker_process, lines 422-426
AfterBuild ==
    /\ w_pc = "after_build"
    /\ progress_var' = 80
    /\ IF ~w_success
       THEN status_var' = "Build failed or produced no jars." /\ w_pc' = "finally"
       ELSE UNCHANGED status_var /\ w_pc' = "filter"
    /\ UNCHANGED <<optVars, btn_state, msgbox>>
    /\ UNCHANGED <<w_url, w_repo_url, w_tmpdir, w_latest, w_cloned, w_prefer, w_success,
                   w_jars, w_usable, w_copied>>
    /\ UNCHANGED <<acqVars, cmd_log, fsVars, detectVars, otherVars>>

\* The default of filter_plugin_jars' parameter prefer_shadow (line 237),
\* which the call on line 428 leaves in force.
DefaultPreferShadow == TRUE

\* A plausible slip: an empty filter result is not told from a usable one.
NoUsable_never(usable_jars) == FALSE

\* `if not usable_jars:` (line 429)
NoUsable(usable_jars) == usable_jars = <<>>

\* worker_process, lines 428-432
FilterJars ==
    /\ w_pc = "filter"
    /\ w_usable' = filter_plugin_jars(w_jars, DefaultPreferShadow,
                                      [j \in WorkFiles |-> WorkMtime(j)])
    /\ IF NoUsable(w_usable')
       THEN status_var' = "No usable plugin jars found." /\ w_pc' = "finally"
       ELSE UNCHANGED status_var /\ w_pc' = "copy"
    /\ UNCHANGED <<optVars, btn_state, progress_var, msgbox>>
    /\ UNCHANGED <<w_url, w_repo_url, w_tmpdir, w_latest, w_cloned, w_prefer, w_success,
                   w_jars, w_copied>>
    /\ UNCHANGED <<acqVars, cmd_log, fsVars, detectVars, otherVars>>

\* filter_plugin_jars reaches its sort (line 260): some jar passes the
\* exclusion and the shadow-named jars are not what is returned.
FilterSorts(jar_list, prefer_shadow) ==
    /\ \E k \in 1..Len(jar_list) : ~IsBadJar(jar_list[k])
    /\ ~(prefer_shadow /\ \E k \in 1..Len(jar_list) :
                            ~IsBadJar(jar_list[k]) /\ IsShadowJar(jar_list[k]))

\* filter_plugin_jars, line 260: os.path.getmtime raises; neither the filter
\* nor the call on line 428 catches it.
FilterRaises ==
    /\ w_pc = "filter"
    /\ FilterSorts(w_jars, DefaultPreferShadow)
    /\ Caught("filter")
    /\ UNCHANGED <<optVars, btn_state, progress_var, msgbox>>
    /\ UNCHANGED <<w_url, w_repo_url, w_tmpdir, w_latest, w_cloned, w_prefer, w_success,
                   w_jars, w_usable, w_copied>>
    /\ UNCHANGED <<acqVars, cmd_log, fsVars, detectVars, harnessVars>>

\* A plausible slip: a file that is already in the output directory is kept
\* beside the copy.
copy2_keep(files, src, dest) == files \cup {[dest |-> dest, src |-> src]}

\* shutil.copy2(jar, dest): dest holds the content of jar, whatever it held.
copy2(files, src, dest) ==
    {f \in files : f.dest # dest} \cup {[dest |-> dest, src |-> src]}

\* The output directory after the loop of lines 436-440 has copied jars.
RECURSIVE CopyAll(_, _)
CopyAll(files, jars) ==
    IF jars = <<>> THEN files
    ELSE CopyAll(copy2(files, Head(jars), DestOf(Head(jars))), Tail(jars))

\* worker_process, lines 434-440: the output directory is made and the usable
\* jars are copied into it one by one; os.makedirs (n = -1) or the copy of
\* jar n + 1 may raise (lines 457-459).
CopyJars ==
    /\ w_pc = "copy"
    /\ \E n \in (-1)..Len(w_usable) :
          /\ out_exists' = (out_exists \/ n >= 0)
          /\ w_copied' = [k \in 1..(IF n < 0 THEN 0 ELSE n) |-> DestOf(w_usable[k])]
          /\ out_files' = CopyAll(out_files, SubSeq(w_usable, 1, n))
          /\ IF n = Len(w_usable)
             THEN w_pc' = "success" /\ UNCHANGED <<status_var, w_report>>
             ELSE Caught("copy")
    /\ UNCHANGED <<optVars, btn_state, progress_var, msgbox>>
    /\ UNCHANGED <<w_url, w_repo_url, w_tmpdir, w_latest, w_cloned, w_prefer, w_success,
                   w_jars, w_usable>>
    /\ UNCHANGED <<acqVars, cmd_log, fs_tmp, fs_jars, detectVars, harnessVars>>

\* worker_process, lines 442-456
Success ==
    /\ w_pc = "success"
    /\ progress_var' = 100
    /\ status_var' = "Build completed successfully."
    /\ msgbox' = Append(msgbox, "Success")
    /\ w_pc' = "finally"
    /\ UNCHANGED <<optVars, btn_state>>
    /\ UNCHANGED <<w_url, w_repo_url, w_tmpdir, w_latest, w_cloned, w_prefer, w_success,
                   w_jars, w_usable, w_copied>>
    /\ UNCHANGED <<acqVars, cmd_log, fsVars, detectVars, otherVars>>

\* `if not keep_temp_var.get():` (line 463)
Removes(keep_temp) == ~keep_temp

\* worker_process, lines 460-470: the button is enabled again and the working
\* tree is removed unless it is to be kept; shutil.rmtree may fail.
Finally ==
    /\ w_pc = "finally"
    /\ btn_state' = "normal"
    /\ IF w_tmpdir # <<>> /\ w_tmpdir \in fs_tmp
       THEN IF Removes(keep_temp_var)
            THEN \E removed \in BOOLEAN :
                    IF removed
                    THEN /\ fs_tmp' = fs_tmp \ {w_tmpdir} /\ d_files' = {} /\ fs_jars' = {}
                         /\ w_report' = [w_report EXCEPT !.cleanup = "deleted"]
                    ELSE /\ UNCHANGED <<fs_tmp, d_files, fs_jars>>
                         /\ w_report' = [w_report EXCEPT !.cleanup = "failed to delete"]
            ELSE /\ UNCHANGED <<fs_tmp, d_files, fs_jars>>
                 /\ w_report' = [w_report EXCEPT !.cleanup = "retained"]
       ELSE UNCHANGED <<fs_tmp, d_files, fs_jars, w_report>>
    /\ w_pc' = "done"
    /\ UNCHANGED <<optVars, status_var, progress_var, msgbox>>
    /\ UNCHANGED <<w_url, w_repo_url, w_tmpdir, w_latest, w_cloned, w_prefer, w_success,
                   w_jars, w_usable, w_copied>>
    /\ UNCHANGED <<acqVars, cmd_log, out_exists, out_files, walkVars, harnessVars>>

Next ==
    \/ OnStart \/ WorkerBegin \/ Resolve \/ CheckRepo \/ MkTemp
    \/ GitVersion \/ GitClone \/ GitTag \/ GitCheckout \/ AfterClone \/ ZipTry
    \/ BuildStart \/ BuildWalk \/ RunShadowJar \/ RunMandatory \/ NoBuildFile \/ Collect
    \/ CollectRaises \/ AfterBuild \/ FilterJars \/ FilterRaises \/ CopyJars \/ Success
    \/ Finally

Spec == Init /\ [][Next]_vars

-----------------------------------------------------------------------------
(* Several runs in one session: the worker threads and their working trees *)

\* The names tempfile.mkdtemp(prefix="plugin_build_") may make up.
TmpNames == {<<"/", "tmp", "/", "plugin_build_a">>, <<"/", "tmp", "/", "plugin_build_b">>}

\* A plausible slip: the directory name is taken without a look at what
\* exists.
FreeNames_any(dirs) == TmpNames

\* mkdtemp makes a directory that did not exist (it tries names until
\* os.mkdir succeeds); nothing keeps it from a name whose directory has been
\* removed.
FreeNames(dirs) == TmpNames \ dirs

Threads == 1..Len(r_pc)

LogEntry(op, run, dir) == [op |-> op, run |-> run, dir |-> dir]

InitRuns ==
    /\ NormIdle /\ FilterIdle /\ DetectIdle /\ PipeIdle /\ ExtractIdle /\ OptionsIdle
    /\ r_btn = "normal" /\ r_pc = <<>> /\ r_tmpdir = <<>> /\ r_keep \in BOOLEAN
    /\ r_dirs = {} /\ r_log = <<>>

\* on_start, lines 634-652: a click on the Start button while it is enabled
\* starts a worker thread; the button is disabled by the thread (line 359).
RunStart ==
    /\ r_btn = "normal"
    /\ Len(r_pc) < MaxRuns
    /\ r_pc' = Append(r_pc, "begin")
    /\ r_tmpdir' = Append(r_tmpdir, None)
    /\ UNCHANGED <<r_btn, r_keep, r_dirs, r_log>>

\* The user ticks or unticks "Keep temporary folder for inspection".
RunToggleKeep ==
    /\ r_keep' = ~r_keep
    /\ UNCHANGED <<r_btn, r_pc, r_tmpdir, r_dirs, r_log>>

\* worker_process, lines 358-400: the button is disabled and the repository
\* is resolved, or is not (the run ends without a working tree).
RunBegin(i) ==
    /\ r_pc[i] = "begin"
    /\ r_btn' = "disabled"
    /\ \E resolved \in BOOLEAN :
          r_pc' = [r_pc EXCEPT ![i] = IF resolved THEN "mkdtemp" ELSE "finally"]
    /\ UNCHANGED <<r_tmpdir, r_keep, r_dirs, r_log>>

\* worker_process, line 402: tmpdir = tempfile.mkdtemp(prefix="plugin_build_")
\* (or it raises, and the run ends without a working tree).
RunMkTemp(i) ==
    /\ r_pc[i] = "mkdtemp"
    /\ \/ \E name \in FreeNames(r_dirs) :
             /\ r_tmpdir' = [r_tmpdir EXCEPT ![i] = name]
             /\ r_dirs' = r_dirs \cup {name}
             /\ r_log' = Append(r_log, LogEntry("made", i, name))
             /\ r_pc' = [r_pc EXCEPT ![i] = "work"]
       \/ /\ r_pc' = [r_pc EXCEPT ![i] = "finally"]
          /\ UNCHANGED <<r_tmpdir, r_dirs, r_log>>
    /\ UNCHANGED <<r_btn, r_keep>>

\* worker_process, lines 407-440: the clone or the archive goes into tmpdir,
\* run_build walks and builds in tmpdir, the jars are copied out of it; the
\* run ends with a return, with the success box or in the except clause.
RunWork(i) ==
    /\ r_pc[i] = "work"
    /\ r_log' = Append(r_log, LogEntry("used", i, r_tmpdir[i]))
    /\ r_pc' = [r_pc EXCEPT ![i] = "finally"]
    /\ UNCHANGED <<r_btn, r_tmpdir, r_keep, r_dirs>>

\* worker_process, lines 460-470
RunFinally(i) ==
    /\ r_pc[i] = "finally"
    /\ r_btn' = "normal"
    /\ IF r_tmpdir[i] # None /\ r_tmpdir[i] \in r_dirs /\ Removes(r_keep)
       THEN \E removed \in BOOLEAN :
               IF removed
               THEN /\ r_dirs' = r_dirs \ {r_tmpdir[i]}
                    /\ r_log' = Append(r_log, LogEntry("removed", i, r_tmpdir[i]))
               ELSE UNCHANGED <<r_dirs, r_log>>
       ELSE UNCHANGED <<r_dirs, r_log>>
    /\ r_pc' = [r_pc EXCEPT ![i] = "done"]
    /\ UNCHANGED <<r_tmpdir, r_keep>>

RunStep == \E i \in Threads : RunBegin(i) \/ RunMkTemp(i) \/ RunWork(i) \/ RunFinally(i)

NextRuns ==
    /\ RunStart \/ RunToggleKeep \/ RunStep
    /\ UNCHANGED <<normVars, filterVars, detectVars, pipeVars, extractVars, optionVars>>

SpecRuns == InitRuns /\ [][NextRuns]_vars

-----------------------------------------------------------------------------
(* One run and the check boxes of the options frame *)

InitOptions ==
    /\ NormIdle /\ FilterIdle /\ DetectIdle /\ PipeIdle /\ ExtractIdle /\ RunsIdle
    /\ OptionsIdle

\* The user ticks or unticks one of the three check boxes (lines 523-542);
\* the main loop serves them while the worker thread runs.
OptToggle ==
    /\ \E name \in {"latest", "shadow", "keep"} :
          o_opts' = [o_opts EXCEPT ![name] = ~o_opts[name]]
    /\ UNCHANGED <<o_start, o_pc, o_env, o_did>>

\* on_start, lines 645-652: the thread is given the three BooleanVar objects,
\* not their values.  (o_start keeps what they showed at that moment.)
OptStart ==
    /\ o_pc = "idle"
    /\ o_start' = o_opts
    /\ o_pc' = "clone"
    /\ UNCHANGED <<o_opts, o_env, o_did>>

\* worker_process, lines 407-418, and try_git_clone, lines 161-178:
\* use_latest_tag_var.get() is read when try_git_clone is called; the tag is
\* checked out when the option is set, the clone succeeded and there is a tag.
\* The run goes on to the build or ends with "Download failed.".
OptClone ==
    /\ o_pc = "clone"
    /\ \E cloned \in BOOLEAN, tags \in BOOLEAN, acquired \in BOOLEAN :
          /\ o_env' = [o_env EXCEPT !.cloned = cloned, !.tags = tags]
          /\ o_did' = [o_did EXCEPT !.checkout = o_opts.latest /\ cloned /\ tags]
          /\ o_pc' = IF acquired THEN "build" ELSE "finally"
    /\ UNCHANGED <<o_opts, o_start>>

\* worker_process, line 421, and run_build, lines 308-311: prefer_shadow.get()
\* is read when run_build is called; shadowJar is run for a wrapper build when
\* the option is set.
OptBuild ==
    /\ o_pc = "build"
    /\ \E wrapper \in BOOLEAN :
          /\ o_env' = [o_env EXCEPT !.built = TRUE, !.wrapper = wrapper]
          /\ o_did' = [o_did EXCEPT !.shadow = TriesShadow(IF wrapper THEN "GradleWrapper"
                                                           ELSE "Maven", o_opts.shadow)]
    /\ o_pc' = "finally"
    /\ UNCHANGED <<o_opts, o_start>>

\* worker_process, lines 460-470: keep_temp_var.get() is read in the finally
\* block; shutil.rmtree is called when it is not set.
OptFinally ==
    /\ o_pc = "finally"
    /\ o_did' = [o_did EXCEPT !.deleted = Removes(o_opts.keep)]
    /\ o_pc' = "done"
    /\ UNCHANGED <<o_opts, o_start, o_env>>

NextOptions ==
    /\ OptToggle \/ OptStart \/ OptClone \/ OptBuild \/ OptFinally
    /\ UNCHANGED <<normVars, filterVars, detectVars, pipeVars, extractVars, runsVars>>

SpecOptions == InitOptions /\ [][NextOptions]_vars

-----------------------------------------------------------------------------
(* Properties of normalize_repo_url (SpecNorm) *)

\* The trailing empty segments of a path, which rstrip("/") removes.
RECURSIVE TrimEmpty(_)
TrimEmpty(segs) ==
    IF Len(segs) > 0 /\ segs[Len(segs)] = <<>>
    THEN TrimEmpty(SubSeq(segs, 1, Len(segs) - 1)) ELSE segs

\* A segment without the ";params" suffix.
BeforeSemi(seg) == IF Has(seg, ";") THEN SubSeq(seg, 1, Find(seg, ";", 1) - 1) ELSE seg

\* The second segment of the path as the URL parser delimits it: the parser
\* takes ";params" off the last segment of an https or scheme-less URL.
RepoSeg(c) ==
    IF Len(c.segs) = 2 /\ c.scheme \in {<<>>, <<"https">>}
    THEN BeforeSemi(c.segs[2]) ELSE c.segs[2]

C1_Pre ==
    /\ Len(n_out) >= 1
    /\ n_cmp.auth
    /\ n_cmp.host \in {"github.com", "gitlab.com", "bitbucket.org"}
    /\ Len(TrimEmpty(n_cmp.segs)) >= 2

\* C1: for a URL scheme://host/... whose host is GitHub, GitLab or Bitbucket
\* and whose path (trailing slashes aside) has at least two segments,
\* normalize_repo_url returns exactly scheme://host/<first segment>/<second
\* segment>: further segments, a trailing slash, the query and the fragment
\* are dropped.
C1_TruncatesToOwnerRepo ==
    C1_Pre =>
        n_out[1] = n_cmp.scheme \o <<":", "/", "/", n_cmp.host, "/">>
                   \o n_cmp.segs[1] \o <<"/">> \o RepoSeg(n_cmp)

C1_Witness ==
    /\ C1_Pre
    /\ n_cmp.segs = << <<"o">>, <<"r">>, <<"o">> >>
    /\ n_cmp.query /\ n_cmp.frag
    /\ n_url = <<"https", ":", "/", "/", "github.com", "/", "o", "/", "r", "/", "o",
                 "?", "q", "#", "f">>
    /\ n_out[1] = <<"https", ":", "/", "/", "github.com", "/", "o", "/", "r">>

\* C2: normalize_repo_url is idempotent for every input URL: applying it to
\* its own result gives that result again.
C2_Idempotent == Len(n_out) >= 2 => n_out[2] = n_out[1]

-----------------------------------------------------------------------------
(* Properties of filter_plugin_jars (SpecFilter) *)

\* The filename of path j, lower-cased, contains one of the words of M.
NameHasAny(j, M) == \E m \in M : InStr(m, Lower(basename(j)))

Excluded(j) ==
    NameHasAny(j, {"sources", "javadoc", "tests", "original-", "gradle", "build-logic.jar"})

ShadowNamed(j) == NameHasAny(j, {"shadow", "all"})

\* How many times x occurs in the list s.
Count(s, x) == Cardinality({k \in 1..Len(s) : s[k] = x})

SomeShadowSurvivor == \E k \in 1..Len(f_list) : ~Excluded(f_list[k]) /\ ShadowNamed(f_list[k])

PluginJar == <<"build", "/", "plugin", ".jar">>
PluginAllJar == <<"build", "/", "plugin", "-", "all", ".jar">>
PluginSourcesJar == <<"build", "/", "plugin", "-", "sources", ".jar">>

\* C3: whatever the candidates and prefer_shadow, no returned path has a
\* filename that contains, case-insensitively, "sources", "javadoc", "tests",
\* "original-", "gradle" or "build-logic.jar".
C3_NoExcludedName ==
    f_pc = "returned" => \A k \in 1..Len(f_ret) : ~Excluded(f_ret[k])

C3_Witness ==
    /\ f_pc = "returned"
    /\ \E k \in 1..Len(f_list) : f_list[k] = <<"build", "/", "plugin", "-", "all", "-", "JavaDoc", ".jar">>
    /\ \E k \in 1..Len(f_list) : f_list[k] = PluginJar
    /\ f_ret = <<PluginJar>>

C5_AllSurvivorsNewestFirst ==
    (f_pc = "returned" /\ (~f_prefer \/ ~SomeShadowSurvivor)) =>
        /\ \A j \in JarFiles : Count(f_ret, j) = IF Excluded(j) THEN 0 ELSE Count(f_list, j)
        /\ \A k \in 1..(Len(f_ret) - 1) : HarnessMtime(f_ret[k]) >= HarnessMtime(f_ret[k + 1])
        /\ (f_list = <<PluginJar, PluginSourcesJar>> /\ ~f_prefer) => f_ret = <<PluginJar>>

C5_Witness ==
    /\ f_pc = "returned" /\ ~f_prefer
    /\ f_list = <<PluginJar, PluginSourcesJar, PluginAllJar>>
    /\ f_ret = <<PluginAllJar, PluginJar>>

-----------------------------------------------------------------------------
(* Properties of find_build_files and the build-kind dispatch (SpecDetect) *)

\* The directory d holds a file named f.
Holds(d, f) == (d \o <<"/", f>>) \in d_files

\* Some directory of the tree holds a file named f.
Anywhere(f) == \E r \in RelDirs : Holds(DirPath(d_root, r), f)

Visited(d) == \E k \in 1..Len(d_visited) : d_visited[k] = d

\* The directory visited last among those that hold a file named f.
LastVisitedWith(f) ==
    LET ks == {k \in 1..Len(d_visited) : Holds(d_visited[k], f)}
    IN d_visited[CHOOSE k \in ks : \A j \in ks : j <= k]

\* C7: once a visited directory's own files include gradlew, the walk has
\* stopped with that directory the last one visited; the descriptor is
\* GradleWrapper with that directory as build root, and no build file of a
\* directory that was not visited is recorded (gradlew at root/ and a pom.xml
\* deeper give {GradleWrapper, root}).
C7_GradlewStopsWalk ==
    /\ \A k \in 1..Len(d_visited) :
          Holds(d_visited[k], "gradlew") => (k = Len(d_visited) /\ d_pc = "returned")
    /\ (d_pc = "returned" /\ \E k \in 1..Len(d_visited) : Holds(d_visited[k], "gradlew")) =>
          /\ BuildKind(d_res) = "GradleWrapper"
          /\ work_dir(d_res) = d_visited[Len(d_visited)]
          /\ \A r \in RelDirs, f \in BuildFileNames :
                ~Visited(DirPath(d_root, r)) =>
                    \A key \in DOMAIN d_res : d_res[key] # DirPath(d_root, r) \o <<"/", f>>
    /\ (d_pc = "returned" /\ Holds(d_root, "gradlew")) =>
          /\ d_visited = <<d_root>>
          /\ BuildKind(d_res) = "GradleWrapper" /\ work_dir(d_res) = d_root

C7_Witness ==
    /\ d_pc = "returned"
    /\ d_files = {<<"root", "/", "gradlew">>, <<"root", "/", "sub", "/", "pom.xml">>}
    /\ d_visited = << <<"root">> >>
    /\ d_res.pom_xml = <<>>
    /\ BuildKind(d_res) = "GradleWrapper" /\ work_dir(d_res) = <<"root">>

\* C8: with no gradlew anywhere in the tree the whole tree is walked and the
\* descriptor is SystemGradle if a build.gradle or build.gradle.kts exists
\* (build root: the last-visited directory with a build.gradle if there is
\* one, else the last-visited directory with a build.gradle.kts), else Maven
\* at the last-visited directory with a pom.xml (only root/sub/pom.xml gives
\* {Maven, root/sub}), else None.
C8_NoWrapperPriority ==
    (d_pc = "returned" /\ ~Anywhere("gradlew")) =>
        /\ \A r \in RelDirs : Visited(DirPath(d_root, r))
        /\ IF Anywhere("build.gradle")
           THEN /\ BuildKind(d_res) = "SystemGradle"
                /\ work_dir(d_res) = LastVisitedWith("build.gradle")
           ELSE IF Anywhere("build.gradle.kts")
           THEN /\ BuildKind(d_res) = "SystemGradle"
                /\ work_dir(d_res) = LastVisitedWith("build.gradle.kts")
           ELSE IF Anywhere("pom.xml")
           THEN /\ BuildKind(d_res) = "Maven"
                /\ work_dir(d_res) = LastVisitedWith("pom.xml")
           ELSE BuildKind(d_res) = "None"
        /\ d_files = {<<"root", "/", "sub", "/", "pom.xml">>} =>
              (BuildKind(d_res) = "Maven" /\ work_dir(d_res) = <<"root", "/", "sub">>)

C8_Witness ==
    /\ d_pc = "returned"
    /\ d_files = {<<"root", "/", "sub", "/", "build.gradle.kts">>,
                  <<"root", "/", "lib", "/", "build.gradle">>,
                  <<"root", "/", "pom.xml">>}
    /\ d_visited = << <<"root">>, <<"root", "/", "lib">>, <<"root", "/", "sub">>,
                      <<"root", "/", "sub", "/", "mod">> >>
    /\ BuildKind(d_res) = "SystemGradle"
    /\ work_dir(d_res) = <<"root", "/", "lib">>

-----------------------------------------------------------------------------
(* Properties of the pipeline (Spec): filtering and acquisition *)

\* The run is past the call of filter_plugin_jars.
PastFilter == w_success /\ w_pc \in {"copy", "success", "finally", "done"}

AllExcluded(jars) == \A k \in 1..Len(jars) : Excluded(jars[k])

\* The candidate lists of up to two jars that the exclusion step empties.
ExcludedLists == SeqsUpTo({JarSources, JarWrapper}, 2)

\* C6: filter_plugin_jars returns the empty list for the empty candidate list
\* and for a list whose every candidate the exclusion step removes, whatever
\* prefer_shadow is; and a run whose build gave only such candidates gets the
\* empty list from the filter and ends without success: the status is "No
\* usable plugin jars found.", progress stays at 80, no success box is shown
\* and nothing is copied.
C6_EmptyResultEndsRun ==
    /\ w_pc = "filter" =>
          \A l \in ExcludedLists, b \in BOOLEAN :
             filter_plugin_jars(l, b, [j \in WorkFiles |-> WorkMtime(j)]) = <<>>
    /\ (PastFilter /\ AllExcluded(w_jars)) =>
          /\ w_usable = <<>>
          /\ w_pc \in {"finally", "done"}
          /\ status_var = "No usable plugin jars found."
          /\ progress_var = 80
          /\ \A k \in 1..Len(msgbox) : msgbox[k] # "Success"
          /\ w_copied = <<>> /\ out_files \subseteq {OldOutput}

C6_Witness ==
    /\ w_pc = "done"
    /\ w_success
    /\ Len(w_jars) = 2 /\ {w_jars[1], w_jars[2]} = {JarSources, JarWrapper}
    /\ w_usable = <<>>
    /\ status_var = "No usable plugin jars found."
    /\ w_copied = <<>> /\ out_files = {}

\* The positions of the worker inside try_git_clone.
GitPcs == {"git_version", "git_clone", "git_tag", "git_checkout"}

\* try_git_clone has returned.
CloneDone == git_log # <<>> /\ w_pc \notin GitPcs

\* The last git command run is the one that decided what try_git_clone
\* returned: it failed (git missing, clone, tag listing or checkout failed).
CloneFailed == CloneDone /\ ~git_log[Len(git_log)].ok

NoneOk(zlog) == \A k \in 1..Len(zlog) : zlog[k].outcome # "ok"

\* The host of the repository URL is none of GitHub, GitLab, Bitbucket.
OtherHost == ~IsRepoHost(Lower(urlparse(w_repo_url).netloc))

\* C9: an archive candidate is fetched only after try_git_clone has returned
\* and its last git command failed; after a clone that succeeded no archive
\* is ever fetched; the status is "Download failed." only when the clone
\* failed and every archive candidate of the host was tried and failed; and
\* for a host other than GitHub, GitLab, Bitbucket a failed clone ends the run
\* with that status without any archive fetched.
C9_CloneThenArchive ==
    /\ (z_log # <<>> \/ w_pc = "zip") => (CloneFailed /\ ~w_cloned)
    /\ (CloneDone /\ ~CloneFailed) => (w_cloned /\ z_log = <<>> /\ z_cands = <<>>)
    /\ status_var = "Download failed." =>
          /\ CloneFailed
          /\ Len(z_log) = Len(ZipCandidates(w_repo_url))
          /\ NoneOk(z_log)
    /\ (CloneFailed /\ w_pc \in {"finally", "done"} /\ NoneOk(z_log)) =>
          status_var = "Download failed."
    /\ (CloneFailed /\ w_pc \in {"finally", "done"} /\ OtherHost) =>
          (status_var = "Download failed." /\ z_log = <<>>)

C9_Witness ==
    /\ w_pc = "done"
    /\ status_var = "Download failed."
    /\ git_log = << [cmd |-> "--version", ok |-> TRUE], [cmd |-> "clone", ok |-> FALSE] >>
    /\ w_repo_url = <<"https", ":", "/", "/", "github.com", "/", "o", "/", "r">>
    /\ Len(z_log) = 3
    /\ z_log[1].outcome = "non200" /\ z_log[2].outcome = "fetch_error"
    /\ z_log[3].outcome = "extract_error"

\* The branch names of the archive candidates of a host, in the order stated.
BranchOrder(net) ==
    IF Has(net, "github.com") THEN <<"main", "master", "develop">>
    ELSE IF Has(net, "gitlab.com") THEN <<"main", "master">>
    ELSE IF Has(net, "bitbucket.org") THEN <<"main", "master">>
    ELSE <<>>

\* The branch an archive URL names: the token before ".zip".
BranchOf(url) == url[Len(url) - 1]

StartsWith(s, p) == Len(s) >= Len(p) /\ SubSeq(s, 1, Len(p)) = p

\* C10: the k-th archive fetched is the one of the k-th branch of the host's
\* list (GitHub: main, master, develop; GitLab: main, master; Bitbucket: main,
\* master) under the repository URL; every fetch but the last one failed; a
\* failed fetch that is not the last candidate's is followed by the next
\* candidate, and the last candidate's by "Download failed."; a fetch that
\* downloads and extracts ends the loop, the run goes on to the build and no
\* further candidate is fetched.
C10_CandidatesInOrder ==
    z_log # <<>> =>
        LET order == BranchOrder(Lower(urlparse(w_repo_url).netloc))
            n == Len(z_log)
        IN /\ n <= Len(order)
           /\ \A k \in 1..n : /\ BranchOf(z_log[k].url) = order[k]
                               /\ StartsWith(z_log[k].url, w_repo_url)
           /\ \A k \in 1..(n - 1) : z_log[k].outcome # "ok"
           /\ IF z_log[n].outcome = "ok"
              THEN w_pc # "zip" /\ status_var # "Download failed."
              ELSE IF n < Len(order)
              THEN w_pc = "zip" /\ z_i = n + 1
              ELSE w_pc \in {"finally", "done"} /\ status_var = "Download failed."

C10_Witness ==
    /\ w_pc = "build_start"
    /\ w_repo_url = <<"https", ":", "/", "/", "github.com", "/", "o", "/", "r">>
    /\ Len(z_log) = 3
    /\ z_log[1] = [url |-> w_repo_url \o <<"/archive/refs/heads/", "main", ".zip">>,
                   outcome |-> "fetch_error"]
    /\ z_log[2] = [url |-> w_repo_url \o <<"/archive/refs/heads/", "master", ".zip">>,
                   outcome |-> "extract_error"]
    /\ z_log[3] = [url |-> w_repo_url \o <<"/archive/refs/heads/", "develop", ".zip">>,
                   outcome |-> "ok"]

-----------------------------------------------------------------------------
(* Properties of the unpacking in try_zip_download (SpecExtract) *)

\* The top-level entries of the archive.
ZipTops == {m[1] : m \in e_zip}

\* The archive has exactly one top-level entry, and it is a directory.
SingleDirArchive == Cardinality(ZipTops) = 1 /\ \A m \in e_zip : Len(m) > 1

\* The files under dest after a return.
FilesAfter == e_out[1].files

\* C11: after a successful unpacking of an archive whose only top-level entry
\* is a directory, every member is at dest/<its path below that directory>
\* and nothing is left under dest/<that directory>; after a successful
\* unpacking of any other archive every member is at dest/<its path> and the
\* files dest held before are where they were.
C11_SingleDirFlattened ==
    (e_pc = "returned" /\ e_out[1].ok) =>
        IF SingleDirArchive
        THEN /\ \A m \in e_zip : HarnessDest \o SubSeq(m, 2, Len(m)) \in FilesAfter
             /\ \A t \in ZipTops, f \in FilesAfter : ~IsPrefix(HarnessDest \o <<"/", t, "/">>, f)
        ELSE FilesAfter = e_dest \cup {HarnessDest \o <<"/">> \o m : m \in e_zip}

-----------------------------------------------------------------------------
(* Properties of run_build (Spec) *)

\* run_build has returned.
BuildReturned == w_pc \in {"after_build", "filter", "copy", "success"}
                 \/ (w_pc \in {"finally", "done"} /\ progress_var >= 80)

\* find_build_files has returned inside run_build and the commands are next,
\* under way or over.
Detected == w_pc \in {"build_cmd", "collect"} \/ BuildReturned

IsShadowRun(c) == c.cmd = <<"./gradlew", "shadowJar", "-x", "test">>

IsWrapperBuild(c) == c.cmd = <<"./gradlew", "build", "-x", "test">>

\* C12: for a GradleWrapper descriptor with the shadow preference on, the
\* first command run is `./gradlew shadowJar -x test`; whatever its exit
\* status the worker is then about to run `./gradlew build -x test`, which is
\* the second and last command; run_build goes on to collect the jars exactly
\* when that second command exited with 0 and returns (False, []) otherwise.
\* With the preference off no shadowJar command is ever in the log.
C12_ShadowThenBuild ==
    /\ (Detected /\ BuildKind(d_res) = "GradleWrapper" /\ w_prefer) =>
          /\ Len(cmd_log) >= 1 => IsShadowRun(cmd_log[1])
          /\ Len(cmd_log) = 1 => w_pc = "build_cmd"
          /\ Len(cmd_log) >= 2 =>
                /\ Len(cmd_log) = 2 /\ IsWrapperBuild(cmd_log[2])
                /\ cmd_log[2].out # "0" => (~w_success /\ w_jars = <<>> /\ w_pc # "collect")
                /\ (cmd_log[2].out = "0" /\ w_jars = <<>> /\ ~w_success) =>
                      (w_pc = "collect" \/ Collectable(fs_jars) = {} \/ fs_tmp = {})
          /\ w_pc # "build_cmd" => Len(cmd_log) = 2
    /\ ~w_prefer => \A k \in 1..Len(cmd_log) : ~IsShadowRun(cmd_log[k])

C12_Witness ==
    /\ w_pc = "filter"
    /\ BuildKind(d_res) = "GradleWrapper" /\ w_prefer
    /\ Len(cmd_log) = 2
    /\ IsShadowRun(cmd_log[1]) /\ cmd_log[1].out = "1"
    /\ IsWrapperBuild(cmd_log[2]) /\ cmd_log[2].out = "0"
    /\ w_success

\* The command is the mandatory build command of the kind.
IsMandatory(c, kind) ==
    \/ kind = "GradleWrapper" /\ IsWrapperBuild(c)
    \/ kind = "SystemGradle" /\ c.cmd = <<"gradle", "build", "-x", "test">>
    \/ kind = "Maven" /\ c.cmd = <<"mvn", "-DskipTests", "package">>

\* The command was run in the directory of the build file the kind goes by.
InBuildRoot(c, kind) ==
    \/ kind = "GradleWrapper" /\ d_res.gradlew = c.cwd \o <<"/", "gradlew">>
    \/ kind = "SystemGradle" /\ d_res.build_gradle # <<>>
          /\ d_res.build_gradle = c.cwd \o <<"/", "build.gradle">>
    \/ kind = "SystemGradle" /\ d_res.build_gradle = <<>>
          /\ d_res.build_gradle_kts = c.cwd \o <<"/", "build.gradle.kts">>
    \/ kind = "Maven" /\ d_res.pom_xml = c.cwd \o <<"/", "pom.xml">>

\* C13: once run_build has returned, for kind None no command was run and the
\* result is (False, []); for any other kind the log ends with the mandatory
\* command of that kind, run once, in the build root, and success is reported
\* only if it exited with 0; every command before it is a shadowJar run, of
\* which there is one at most and only for GradleWrapper.
C13_SuccessNeedsMandatory ==
    BuildReturned =>
        LET kind == BuildKind(d_res)
            last == Len(cmd_log)
        IN IF kind = "None"
           THEN cmd_log = <<>> /\ ~w_success /\ w_jars = <<>>
           ELSE /\ last >= 1
                /\ IsMandatory(cmd_log[last], kind) /\ InBuildRoot(cmd_log[last], kind)
                /\ \A k \in 1..(last - 1) :
                      /\ ~IsMandatory(cmd_log[k], kind)
                      /\ IsShadowRun(cmd_log[k]) /\ kind = "GradleWrapper" /\ k = 1
                /\ w_success => cmd_log[last].out = "0"

C13_Witness ==
    /\ w_pc = "filter" /\ w_success
    /\ BuildKind(d_res) = "Maven"
    /\ cmd_log = << [cmd |-> <<"mvn", "-DskipTests", "package">>,
                     cwd |-> <<"/", "tmp", "/", "plugin_build_1", "/", "lib">>,
                     out |-> "0"] >>

-----------------------------------------------------------------------------
(* Properties of worker_process (Spec): stages, failures and clean-up *)

\* The run is past its try block: in the finally block or over.
Ended == w_pc \in {"finally", "done"}

\* try_git_clone or try_zip_download returned True.
Acquired == w_cloned \/ (z_log # <<>> /\ z_log[Len(z_log)].outcome = "ok")

\* The last command run_build ran, the mandatory one, ended with status 0.
BuildOk == cmd_log # <<>> /\ cmd_log[Len(cmd_log)].out = "0"

\* The output directory is as it was before the run.
NothingCopied == w_copied = <<>> /\ out_files \subseteq {OldOutput}

\* C14: the stages run in the order resolve, acquire, detect, build, collect,
\* filter, copy, each only after the one before it has succeeded (the working
\* tree is made only for a resolved repository, the build files are looked for
\* only in an acquired tree, a command is run only for a detected build kind,
\* jars are collected only after the mandatory command ended with 0, filtered
\* only when some were collected, copied only when some are usable); and a
\* failure status is set only at the end of the run, with every later stage
\* untouched.
C14_StagesInOrder ==
    /\ (w_tmpdir # None \/ fs_tmp # {} \/ git_log # <<>>) => w_repo_url # None
    /\ (git_log # <<>> \/ z_log # <<>>) => w_tmpdir # None
    /\ (d_pc # "idle" \/ d_visited # <<>>) => Acquired
    /\ cmd_log # <<>> => (d_pc = "returned" /\ BuildKind(d_res) # "None")
    /\ (w_success \/ w_jars # <<>> \/ w_pc = "collect") => BuildOk
    /\ (w_usable # <<>> \/ w_pc = "filter") => (w_success /\ w_jars # <<>>)
    /\ (~NothingCopied \/ w_pc \in {"copy", "success"}) => w_usable # <<>>
    /\ status_var = "Could not determine repository URL." =>
          /\ Ended /\ w_repo_url = None
          /\ w_tmpdir = None /\ git_log = <<>> /\ z_log = <<>>
          /\ d_pc = "idle" /\ cmd_log = <<>> /\ w_jars = <<>> /\ w_usable = <<>>
          /\ NothingCopied
    /\ status_var = "Download failed." =>
          /\ Ended /\ ~Acquired
          /\ d_pc = "idle" /\ cmd_log = <<>> /\ w_jars = <<>> /\ w_usable = <<>>
          /\ NothingCopied
    /\ status_var = "Build failed or produced no jars." =>
          /\ Ended /\ ~w_success
          /\ BuildKind(d_res) = "None" => cmd_log = <<>>
          /\ w_jars = <<>> /\ w_usable = <<>>
          /\ NothingCopied
    /\ status_var = "No usable plugin jars found." =>
          /\ Ended /\ w_usable = <<>>
          /\ NothingCopied
    /\ status_var = "Build completed successfully." =>
          /\ Ended /\ Acquired /\ BuildOk /\ w_success /\ w_usable # <<>>
          /\ Len(w_copied) = Len(w_usable)

\* A run whose tree was acquired and holds no build file: nothing was run,
\* collected, filtered or copied.
C14_Witness ==
    /\ w_pc = "done"
    /\ status_var = "Build failed or produced no jars."
    /\ Acquired /\ d_pc = "returned" /\ BuildKind(d_res) = "None"
    /\ cmd_log = <<>> /\ w_jars = <<>> /\ NothingCopied

\* The run made a working tree.
MadeTree == w_tmpdir # None

\* C15: when a run that made a working tree has ended (with success, with a
\* stage failure or with an exception) and the tree was not to be kept, the
\* working tree no longer exists; when it was to be kept, the tree is in place
\* and its path has been logged.
C15_TreeGoneUnlessKept ==
    (w_pc = "done" /\ MadeTree) =>
        IF keep_temp_var
        THEN w_tmpdir \in fs_tmp /\ w_report.cleanup = "retained"
        ELSE w_tmpdir \notin fs_tmp

\* The failure kind a run has ended with ("" for a run that has not ended, has
\* succeeded or has caught an exception).
FailureKind ==
    IF ~Ended \/ w_report.exception # "" \/ status_var = "Build completed successfully."
    THEN ""
    ELSE IF w_repo_url = None THEN "ResolutionError"
    ELSE IF ~Acquired THEN "AcquisitionError"
    ELSE IF BuildKind(d_res) = "None" THEN "DetectionError"
    ELSE IF ~BuildOk THEN "BuildError"
    ELSE IF w_jars = <<>> THEN "NoArtifactsError"
    ELSE "NoUsableArtifactsError"

\* C16: each failure kind ends the run with a status of its own, one that
\* tells the kind: a status belongs to one kind (the status the code sets for
\* a failed build is taken as that of the build failure), and the detection
\* failure and the build without jars have a status that is none of the
\* others'.
C16_OwnStatusPerKind ==
    Ended =>
        /\ FailureKind = "ResolutionError" <=>
              status_var = "Could not determine repository URL."
        /\ FailureKind = "AcquisitionError" <=> status_var = "Download failed."
        /\ FailureKind = "BuildError" <=> status_var = "Build failed or produced no jars."
        /\ FailureKind = "NoUsableArtifactsError" <=>
              status_var = "No usable plugin jars found."
        /\ FailureKind \in {"DetectionError", "NoArtifactsError"} =>
              status_var \notin {"Could not determine repository URL.", "Download failed.",
                                 "Build failed or produced no jars.",
                                 "No usable plugin jars found.", "Starting...",
                                 "Building project...", "Build completed successfully."}

\* C17: an exception raised in a stage (mkdtemp of the acquisition, the jar
\* collection, the filter, the copy) is caught: the run goes to its end with
\* the status "Exception during process.", without the success status, the
\* success box or full progress, the stage is in the log, and the finally
\* block enables the button and cleans the working tree up as after any run;
\* and the status is shown for a caught exception only.
C17_ExceptionCaught ==
    /\ w_report.exception # "" =>
          /\ Ended
          /\ status_var = "Exception during process."
          /\ progress_var < 100
          /\ \A k \in 1..Len(msgbox) : msgbox[k] # "Success"
          /\ w_pc = "done" =>
                /\ btn_state = "normal"
                /\ MadeTree => w_report.cleanup \in {"deleted", "failed to delete", "retained"}
                /\ w_report.cleanup = "deleted" => w_tmpdir \notin fs_tmp
    /\ status_var = "Exception during process." =>
          w_report.exception \in {"mkdtemp", "collect", "filter", "copy"}

\* os.path.getmtime raised while the jars were collected; the run ended and
\* its working tree was removed.
C17_Witness ==
    /\ w_pc = "done"
    /\ w_report = [exception |-> "collect", cleanup |-> "deleted"]
    /\ status_var = "Exception during process."
    /\ BuildOk /\ ~w_success /\ progress_var = 40
    /\ w_tmpdir \notin fs_tmp /\ btn_state = "normal"

-----------------------------------------------------------------------------
(* Properties of the copy and of the jar collection (Spec) *)

\* The files the output directory holds at path dest.
FilesAt(dest) == {f \in out_files : f.dest = dest}

\* The last usable jar that was copied to dest.
LastCopiedTo(dest) ==
    w_usable[CHOOSE k \in 1..Len(w_usable) :
                /\ OutDir \o <<"/">> \o basename(w_usable[k]) = dest
                /\ \A j \in (k + 1)..Len(w_usable) :
                      OutDir \o <<"/">> \o basename(w_usable[j]) # dest]

\* C18: the success status is set only when at least one jar was copied; then
\* the copied list has one entry for each jar the filter returned, in order,
\* each the output directory joined with the jar's own file name; the output
\* directory exists; and the directory holds one file at each of these paths,
\* with the content of the last jar copied there, whatever was at that path
\* before.
C18_SuccessCopiesEach ==
    status_var = "Build completed successfully." =>
        /\ Len(w_copied) >= 1
        /\ Len(w_copied) = Len(w_usable)
        /\ \A k \in 1..Len(w_usable) :
              w_copied[k] = OutDir \o <<"/">> \o basename(w_usable[k])
        /\ out_exists
        /\ \A k \in 1..Len(w_copied) :
              FilesAt(w_copied[k]) = {[dest |-> w_copied[k], src |-> LastCopiedTo(w_copied[k])]}

\* Two usable jars of the same name: both are in the copied list and the
\* output directory has the second.
C18_Witness ==
    /\ w_pc = "done"
    /\ status_var = "Build completed successfully."
    /\ w_usable = <<JarPlugin, JarPluginLib>>
    /\ w_copied = <<OutDir \o <<"/", "plugin", ".jar">>, OutDir \o <<"/", "plugin", ".jar">> >>
    /\ out_files = {[dest |-> OutDir \o <<"/", "plugin", ".jar">>, src |-> JarPluginLib]}

\* run_build has collected the jars and the working tree is still there.
Collected == BuildOk /\ w_pc \in {"after_build", "filter", "copy", "success"}

\* The directory components of a path: what stands between its separators,
\* the file name aside.
DirComponents(p) == SubSeq(Split(p, "/"), 1, Len(Split(p, "/")) - 1)

\* A file whose name ends in .jar and none of whose directories is .gradle.
JarOutsideCache(p) ==
    /\ p[Len(p)] \in {".jar", "build-logic.jar"}
    /\ LET dirs == DirComponents(p) IN \A i \in 1..Len(dirs) : dirs[i] # <<".gradle">>

\* C19: after a build that succeeded, the collected list holds each file of
\* the working tree whose name ends in .jar and whose path has no .gradle
\* directory component exactly once, and nothing else: no file under a
\* .gradle directory and no file of another kind.
C19_CollectsJarsOutsideCache ==
    Collected =>
        /\ \A p \in fs_jars : Count(w_jars, p) = IF JarOutsideCache(p) THEN 1 ELSE 0
        /\ \A k \in 1..Len(w_jars) : w_jars[k] \in fs_jars

C19_Witness ==
    /\ Collected
    /\ fs_jars = {JarAll, JarPlugin, JarPluginLib, JarCached}
    /\ Len(w_jars) = 3
    /\ {w_jars[k] : k \in 1..3} = {JarAll, JarPlugin, JarPluginLib}

-----------------------------------------------------------------------------
(* Properties of the working trees of several runs (SpecRuns) *)

\* The positions of the log where directory d was made, and removed.
MadeAt(d) == {k \in 1..Len(r_log) : r_log[k].op = "made" /\ r_log[k].dir = d}
RemovedAt(d) == {k \in 1..Len(r_log) : r_log[k].op = "removed" /\ r_log[k].dir = d}

\* The working tree of run i exists and is the one run i made.
Live(i) ==
    /\ r_tmpdir[i] # None
    /\ \A k \in 1..Len(r_log) : ~(r_log[k].op = "removed" /\ r_log[k].run = i)

\* The run that made the tree that is at r_log[k].dir when entry k is
\* written: the last to have made it, provided the tree was not removed since.
OwnerAt(k) ==
    LET made == {m \in MadeAt(r_log[k].dir) : m < k}
        last == CHOOSE m \in made : \A n \in made : n <= m
    IN IF made = {} \/ \E x \in RemovedAt(r_log[k].dir) : last < x /\ x < k
       THEN 0 ELSE r_log[last].run

\* C20: every run that gets as far as the acquisition has a working tree made
\* for it by mkdtemp at a path where nothing was (a path is made again only
\* after its tree was removed); two runs whose working trees exist at the
\* same time have different paths; and a run uses and removes only the tree
\* it has made itself.  (A later run may be given the path of a tree that was
\* removed.)
C20_OwnFreshTree ==
    /\ \A i \in Threads : r_pc[i] \in {"work"} => (r_tmpdir[i] \in r_dirs /\ Live(i))
    /\ \A d \in TmpNames : \A k \in MadeAt(d), m \in MadeAt(d) :
          k < m => \E x \in RemovedAt(d) : k < x /\ x < m
    /\ \A i \in Threads, j \in Threads :
          (i # j /\ Live(i) /\ Live(j)) => r_tmpdir[i] # r_tmpdir[j]
    /\ \A k \in 1..Len(r_log) :
          r_log[k].op \in {"used", "removed"} => OwnerAt(k) = r_log[k].run

\* Two runs at work at the same time, each in its own tree.
C20_Witness ==
    /\ Len(r_pc) >= 2
    /\ r_pc[1] = "work" /\ r_pc[2] = "finally"
    /\ Live(1) /\ Live(2) /\ r_tmpdir[1] # r_tmpdir[2]
    /\ \E k \in 1..Len(r_log) : r_log[k] = LogEntry("used", 2, r_tmpdir[2])

\* C20 as stated: no two runs of a session, at the same time or one after the
\* other, have the same working-tree path.
C20_NeverSamePath ==
    \A i \in Threads, j \in Threads :
       (i # j /\ r_tmpdir[i] # None /\ r_tmpdir[j] # None) => r_tmpdir[i] # r_tmpdir[j]

-----------------------------------------------------------------------------
(* Properties of worker_process (Spec): the filter's preference, the archive
   fallback's working tree, the output directory of a failed run *)

\* filter_plugin_jars has returned to worker_process.
FilterDone == PastFilter /\ w_report.exception # "filter"

\* The jars of the list that the exclusion step lets through.
Survivors(jars) == {jars[k] : k \in {i \in 1..Len(jars) : ~Excluded(jars[i])}}

\* C21: the filter goes by the shadow preference the run was given and the
\* build used: with the preference on and a shadow/all jar among the jars that
\* pass the exclusion, the usable jars are those with a shadow/all name; with
\* the preference off, the usable jars are all the jars that pass the
\* exclusion.
C21_FilterUsesRunPreference ==
    FilterDone =>
        {w_usable[k] : k \in 1..Len(w_usable)} =
            IF w_prefer /\ \E j \in Survivors(w_jars) : ShadowNamed(j)
            THEN {j \in Survivors(w_jars) : ShadowNamed(j)}
            ELSE Survivors(w_jars)

\* C22: whenever try_zip_download is about to fetch and unpack a candidate,
\* the working tree is empty: nothing of a clone whose tag listing or checkout
\* failed, nothing of an earlier candidate.
C22_EmptyBeforeExtract == w_pc = "zip" => d_files = {}

\* The output directory is as it was before the run: there with the file of
\* the earlier run, or not there.
OutputUntouched ==
    \/ out_exists /\ out_files = {OldOutput}
    \/ ~out_exists /\ out_files = {}

\* C23: a run that has ended without the success status has left the output
\* directory as it was: it has not made the directory and has not written a
\* file in it.
C23_FailedRunLeavesOutput ==
    (Ended /\ status_var # "Build completed successfully.") => OutputUntouched

-----------------------------------------------------------------------------
(* Properties of the Start button (SpecRuns) *)

\* The worker threads that have been started and have not ended.
Running == {i \in Threads : r_pc[i] # "done"}

\* C25: at most one run is in progress at any time (the Start button lets no
\* second worker thread start before the first has ended), and when no run is
\* in progress the button is enabled.
C25_AtMostOneRun ==
    /\ Cardinality(Running) <= 1
    /\ Running = {} => r_btn = "normal"

-----------------------------------------------------------------------------
(* Properties of the options of a run (SpecOptions) *)

\* C24: a run goes by the options as they were when it was started: the tag
\* is checked out exactly when "latest tag" was set then (and there is a
\* clone with a tag), shadowJar is tried exactly when the shadow preference
\* was set then (and the build has a wrapper), and the working tree is
\* removed at the end exactly when retention was not set then, whatever the
\* check boxes were changed to while the worker thread was running.
C24_OptionsAsAtStart ==
    /\ o_pc \in {"build", "finally", "done"} =>
          o_did.checkout = (o_start.latest /\ o_env.cloned /\ o_env.tags)
    /\ (o_pc \in {"finally", "done"} /\ o_env.built) =>
          o_did.shadow = (o_start.shadow /\ o_env.wrapper)
    /\ o_pc = "done" => o_did.deleted = ~o_start.keep


=============================================================================
